---- MODULE Spec2Model ----
(***************************************************************************)
(* Security dashboard backend: the check-aggregation and scoring engine    *)
(* (runAllChecks / runCheck), the nine registered probes, and the fix      *)
(* dispatcher (applyFix) behind the Express routes.                        *)
(*                                                                         *)
(* A probe is modelled as an operator from what it observes on the host    *)
(* (command outputs, file contents, sensor readings) to the Check Report   *)
(* it returns.  The host as the fix dispatcher changes it is the log of    *)
(* state-changing commands that have run on it.                            *)
(***************************************************************************)
EXTENDS Integers, Sequences, FiniteSets, TLC

VARIABLES
    pc,         \* "idle" | "running" (inside the loop of runAllChecks) | "done"
    idx,        \* registry position of the next probe runAllChecks will call
    results,    \* the Result Set runAllChecks is building / has returned
    observed,   \* history: what each `await checkFn()` of the current request yielded
                \* (on the host of harden_ssh: what each request so far returned)
    request,    \* the HTTP request being served (route and :id parameter)
    response,   \* the HTTP response sent for it
    executed,   \* exec calls the fix of the current request issued, with outcome
    hostLog,    \* state-changing commands that took effect on the host so far
    inFlight,   \* registry positions of the probes called and not yet settled
    input,      \* the probe and the host observations a single-probe run is about
    runs,       \* overlapping GET /api/checks requests: per request the position
                \* of its runAllChecks call and the results object it builds
    lhm         \* the fetch of the hardware probe from the sensor HTTP bridge

vars == <<pc, idx, results, observed, request, response, executed, hostLog,
          inFlight, input, runs, lhm>>

(***************************************************************************)
(* Bounds of the exploration                                               *)
(***************************************************************************)
\* at most this many probes of one run report warning, critical or error
MaxFindings == 2
\* at most this many of the sensitive paths exist on the host
MaxPresentPaths == 1
\* at most this many services of the risk table are running
MaxRunning == 1
\* at most this many directive lines in sshd_config
MaxConfigLines == 2
\* at most this many exposed listening sockets
MaxExposed == 1
\* fix requests are served while fewer than this many commands have taken
\* effect on the host
MaxHostLog == 1
\* at most this many harden_ssh requests are made on one host
MaxApplications == 2

\* texts of the errors a failing command can raise
ErrorTexts == {"EACCES: permission denied", "ETIMEDOUT"}
\* text of the error a probe call can reject with
ProbeErrorTexts == {"ENOMEM: not enough memory"}

(***************************************************************************)
(* Report model                                                            *)
(***************************************************************************)
\* a field the code never assigned (JavaScript undefined)
Undefined == "undefined"

\* the details object of a report: the model keeps that it is an object, not
\* what the probe stores in it
Details == "object"

\* the object literal every probe starts from
Result(name, description, category) ==
    [ name |-> name, description |-> description, category |-> category,
      status |-> "pass", message |-> Undefined, details |-> Details,
      recommendations |-> << >>, fixes |-> << >> ]

Fix(id, autoFix) == [id |-> id, autoFix |-> autoFix]

\* an entry of recommendations; texts with interpolated values are kept
\* without the values
Rec(severity, message) == [severity |-> severity, message |-> message]

Returned(report) == [kind |-> "returned", value |-> report]
Thrown(msg) == [kind |-> "thrown", message |-> msg]

\* an execAsync call: it resolved, or it rejected with an error; exit is the
\* exit status of the program the command line runs first
Ran(cmd) == [cmd |-> cmd, ok |-> TRUE, error |-> "", exit |-> 0]
Failed(cmd, err) == [cmd |-> cmd, ok |-> FALSE, error |-> err, exit |-> 1]
\* `program 2>/dev/null || true`: the program failed, the command line did not
Swallowed(cmd) == [cmd |-> cmd, ok |-> TRUE, error |-> "", exit |-> 1]

\* Array.prototype.filter on a sequence
RECURSIVE SelectIdx(_, _, _)
SelectIdx(s, Test(_), k) ==
    IF k > Len(s) THEN << >>
    ELSE (IF Test(s[k]) THEN <<s[k]>> ELSE << >>) \o SelectIdx(s, Test, k + 1)

Filter(s, Test(_)) == SelectIdx(s, Test, 1)

Some(s, Test(_)) == \E k \in 1..Len(s) : Test(s[k])
Every(s, Test(_)) == \A k \in 1..Len(s) : Test(s[k])

\* result.status = 'warning' only when nothing worse was found yet
WarnIfPass(status) == IF status = "pass" THEN "warning" ELSE status

(***************************************************************************)
(* Probe: firewall (checkFirewall)                                         *)
(* obs.ufw      : "notInstalled" (ufw status failed) or the word after     *)
(*                "Status:" in its output ("active" | "inactive")          *)
(* obs.iptables : number of rule lines of iptables -L -n (0 when it fails) *)
(* obs.windows  : whether powershell answered, and the Enabled flag of     *)
(*                each profile line of Get-NetFirewallProfile              *)
(***************************************************************************)
\* stdout.toLowerCase().includes('active'): a substring test on the output
IncludesActive(word) == word \in {"active", "inactive"}

ufwStatus(obs) ==
    IF obs.ufw = "notInstalled" THEN FALSE ELSE IncludesActive(obs.ufw)

IsEnabled(p) == p

hasActiveFirewall(obs) ==
    \/ ufwStatus(obs)
    \/ obs.iptables > 0
    \/ (obs.windows.available /\ Some(obs.windows.profiles, IsEnabled))

checkFirewall(obs) ==
    LET base == Result("Firewall Status",
                       "Checks if a firewall is active and properly configured",
                       "security")
        someDisabled == obs.windows.available /\ ~Every(obs.windows.profiles, IsEnabled)
        st1 == IF someDisabled THEN "warning" ELSE "pass"
        rc1 == IF someDisabled
               THEN <<Rec("high", "Windows Firewall disabled for some profiles")>>
               ELSE << >>
        fx1 == IF someDisabled THEN <<Fix("enable_windows_firewall", TRUE)>> ELSE << >>
    IN  IF ~hasActiveFirewall(obs)
        THEN [base EXCEPT !.status = "critical",
                          !.message = "No active firewall detected!",
                          !.recommendations =
                              rc1 \o <<Rec("critical", "Your system has no firewall protection")>>,
                          !.fixes = fx1 \o <<Fix("enable_ufw", TRUE)>>]
        ELSE [base EXCEPT !.status = st1,
                          !.message = "Firewall is active",
                          !.recommendations =
                              rc1 \o (IF obs.windows.available
                                      THEN <<Rec("info", "Consider reviewing firewall rules")>>
                                      ELSE << >>),
                          !.fixes = fx1]

WindowsProfiles ==
    { [available |-> FALSE, profiles |-> << >>] }
    \cup { [available |-> TRUE, profiles |-> p] :
            p \in { << >>, <<TRUE, TRUE, TRUE>>, <<TRUE, FALSE, TRUE>>,
                    <<FALSE, FALSE, FALSE>> } }

FirewallObs ==
    [ufw : {"notInstalled", "active", "inactive"}, iptables : 0..1,
     windows : WindowsProfiles]

(***************************************************************************)
(* Probe: SSH (checkSSH)                                                   *)
(* obs.sshRunning     : pgrep -x sshd printed a pid                        *)
(* obs.configReadable : readFile('/etc/ssh/sshd_config') succeeded         *)
(* obs.config         : the directive lines of the file, in file order     *)
(***************************************************************************)
Line(key, value) == [key |-> key, value |-> value]

\* String.prototype.toLowerCase on the values that occur in the file
ToLowerCase(v) ==
    CASE v = "Yes" -> "yes" [] v = "No" -> "no" [] OTHER -> v

\* config.match(/^Key\s+(\S+)/m): the value on the first line of that key,
\* lower-cased, or 'default' when no line matches
RECURSIVE MatchFrom(_, _, _)
MatchFrom(config, key, k) ==
    IF k > Len(config) THEN "default"
    ELSE IF config[k].key = key THEN ToLowerCase(config[k].value)
    ELSE MatchFrom(config, key, k + 1)

Match(config, key) == MatchFrom(config, key, 1)

\* parseInt of the digit strings that occur as MaxAuthTries values
ParseInt(s) ==
    CASE s = "1" -> 1 [] s = "2" -> 2 [] s = "3" -> 3 [] s = "4" -> 4
      [] s = "6" -> 6 [] s = "10" -> 10 [] OTHER -> 0

configChecks ==
    << [key |-> "PermitRootLogin", secure |-> {"no", "prohibit-password"}, numeric |-> FALSE,
        message |-> "Root login should be disabled"],
       [key |-> "PasswordAuthentication", secure |-> {"no"}, numeric |-> FALSE,
        message |-> "Password authentication should be disabled (use keys)"],
       [key |-> "PubkeyAuthentication", secure |-> {"yes"}, numeric |-> FALSE,
        message |-> "Public key authentication should be enabled"],
       [key |-> "X11Forwarding", secure |-> {"no"}, numeric |-> FALSE,
        message |-> "X11 forwarding should be disabled if not needed"],
       [key |-> "MaxAuthTries", secure |-> {}, numeric |-> TRUE,
        message |-> "MaxAuthTries should be 3 or less"] >>

isSecure(check, value) ==
    IF check.numeric THEN value # "default" /\ ParseInt(value) <= 3
    ELSE value \in check.secure

\* if (!isSecure && value !== 'default'): the directive is an issue
isIssue(config, check) ==
    LET value == Match(config, check.key)
    IN  ~isSecure(check, value) /\ value # "default"

\* the number of issues the loop over configChecks counts
sshIssues(config) ==
    Cardinality({ k \in 1..Len(configChecks) : isIssue(config, configChecks[k]) })

\* the recommendations the loop pushes, one per issue, in configChecks order
RECURSIVE sshRecommendations(_, _)
sshRecommendations(config, k) ==
    IF k > Len(configChecks) THEN << >>
    ELSE (IF isIssue(config, configChecks[k])
          THEN <<Rec("medium", configChecks[k].message)>> ELSE << >>)
         \o sshRecommendations(config, k + 1)

\* variant: critical needs three issues
sshStatusThree(issues) == IF issues >= 3 THEN "critical" ELSE "warning"

\* result.status = issues >= 2 ? 'critical' : 'warning'
sshStatus(issues) == IF issues >= 2 THEN "critical" ELSE "warning"

checkSSH(obs) ==
    LET base == Result("SSH Security",
                       "Checks SSH configuration for security best practices",
                       "security")
        issues == sshIssues(obs.config)
    IN  IF ~obs.sshRunning
        THEN [base EXCEPT !.message = "SSH server is not running"]
        ELSE IF ~obs.configReadable
        THEN [base EXCEPT !.message = "Cannot read SSH config (may need sudo)"]
        ELSE IF issues > 0
        THEN [base EXCEPT !.status = sshStatus(issues),
                          !.message = "SSH configuration issue(s) found",
                          !.recommendations = sshRecommendations(obs.config, 1),
                          !.fixes = <<Fix("harden_ssh", TRUE)>>]
        ELSE [base EXCEPT !.message = "SSH configuration looks secure"]

ConfigLines ==
    { Line("PermitRootLogin", v) : v \in {"yes", "no", "prohibit-password"} }
    \cup { Line("PasswordAuthentication", v) : v \in {"Yes", "no"} }
    \cup { Line("PubkeyAuthentication", v) : v \in {"yes", "no"} }
    \cup { Line("X11Forwarding", v) : v \in {"yes", "no"} }
    \cup { Line("MaxAuthTries", v) : v \in {"3", "6"} }

RECURSIVE SeqsUpTo(_, _)
SeqsUpTo(S, n) ==
    IF n = 0 THEN { << >> }
    ELSE LET shorter == SeqsUpTo(S, n - 1)
         IN  shorter \cup { Append(q, e) : q \in shorter, e \in S }

SSHObs ==
    { [sshRunning |-> FALSE, configReadable |-> FALSE, config |-> << >>],
      [sshRunning |-> TRUE, configReadable |-> FALSE, config |-> << >>] }
    \cup { [sshRunning |-> TRUE, configReadable |-> TRUE, config |-> c] :
           c \in SeqsUpTo(ConfigLines, MaxConfigLines) }

(***************************************************************************)
(* Probe: gateway (checkGateway)                                           *)
(* obs.running : pgrep found a gateway process                             *)
(* obs.config  : whether a non-empty config file was read, and the two     *)
(*               substring tests on its content that decide the status     *)
(***************************************************************************)
checkGateway(obs) ==
    LET base == Result("Clawdbot Gateway",
                       "Checks Clawdbot Gateway configuration and security",
                       "application")
        st1 == IF obs.config.found /\ ~obs.config.localBinding
               THEN "warning" ELSE "pass"
        st2 == IF obs.config.found /\ ~obs.config.hasAuth
               THEN "warning" ELSE st1
        recs == (IF obs.config.found /\ ~obs.config.localBinding
                 THEN <<Rec("high", "Gateway may be exposed to external interfaces")>>
                 ELSE << >>)
                \o (IF obs.config.found /\ ~obs.config.hasAuth
                    THEN <<Rec("medium", "No authentication token detected in config")>>
                    ELSE << >>)
    IN  IF obs.running
        THEN [base EXCEPT !.status = st2,
                          !.recommendations = recs,
                          !.message = IF st2 = "pass"
                                      THEN "Gateway is running with secure configuration"
                                      ELSE "Gateway is running but has security recommendations"]
        ELSE [base EXCEPT !.status = "info",
                          !.recommendations = recs,
                          !.message = "Gateway is not currently running"]

\* the values result.status holds, one after the other, while the probe runs
gatewayTrace(obs) ==
    <<"pass">>
    \o (IF obs.config.found /\ ~obs.config.localBinding THEN <<"warning">> ELSE << >>)
    \o (IF obs.config.found /\ ~obs.config.hasAuth THEN <<"warning">> ELSE << >>)
    \o (IF ~obs.running THEN <<"info">> ELSE << >>)

GatewayObs ==
    [running : BOOLEAN,
     config : { [found |-> FALSE, localBinding |-> TRUE, hasAuth |-> TRUE] }
              \cup [found : {TRUE}, localBinding : BOOLEAN, hasAuth : BOOLEAN]]

(***************************************************************************)
(* Probe: system updates (checkSystemUpdates)                              *)
(* obs.apt : whether every apt command succeeded, and the two counts       *)
(* obs.dnf : the line count of dnf/yum check-update (0 when it fails)      *)
(* obs.npm : the number of outdated global npm packages (0 when npm fails) *)
(***************************************************************************)
checkSystemUpdates(obs) ==
    LET base == Result("System Updates",
                       "Checks for available system and security updates",
                       "system")
        apt == obs.apt
        st1 == IF ~apt.available THEN "pass"
               ELSE IF apt.securityUpdates > 0 THEN "critical"
               ELSE IF apt.totalUpdates > 0 THEN "warning"
               ELSE "pass"
        fx == IF st1 = "critical" THEN <<Fix("install_security_updates", FALSE)>>
              ELSE IF st1 = "warning" THEN <<Fix("install_all_updates", FALSE)>>
              ELSE << >>
        rc1 == IF st1 = "critical"
               THEN <<Rec("critical", "security update(s) available. Install immediately!")>>
               ELSE IF st1 = "warning"
               THEN <<Rec("low", "package update(s) available")>>
               ELSE << >>
        st2 == IF obs.dnf > 0 THEN WarnIfPass(st1) ELSE st1
        rc2 == IF obs.dnf > 0 /\ st1 = "pass"
               THEN <<Rec("low", "package update(s) available (dnf/yum)")>> ELSE << >>
        rc3 == IF obs.npm > 0
               THEN <<Rec("info", "npm global package(s) have updates")>> ELSE << >>
    IN  [base EXCEPT !.status = st2,
                     !.recommendations = rc1 \o rc2 \o rc3,
                     !.fixes = fx,
                     !.message = IF st2 = "pass" THEN "System is up to date"
                                 ELSE IF st2 = "critical"
                                 THEN "Critical security updates available!"
                                 ELSE "Some updates are available"]

\* await execAsync('sudo apt-get update -qq ...') at the head of the apt
\* block: when the block succeeds, the package lists of the host were
\* refreshed
updatesEffect(obs) ==
    IF obs.apt.available THEN <<Ran("sudo apt-get update -qq")>> ELSE << >>

UpdatesObs ==
    [apt : { [available |-> FALSE, totalUpdates |-> 0, securityUpdates |-> 0] }
           \cup [available : {TRUE}, totalUpdates : 0..1, securityUpdates : 0..1],
     dnf : 0..1, npm : 0..1]

(***************************************************************************)
(* Probe: file permissions (checkFilePermissions)                          *)
(* obs.stat[k] : outcome of stat() on criticalPaths[k]: it does not exist  *)
(*               (ENOENT), fails otherwise, or yields mode & 0o777         *)
(* obs.worldWritable : find lists a world-writable file under the home     *)
(***************************************************************************)
Octal(u, g, o) == u * 64 + g * 8 + o

\* homedir() is /home/user; underEtc and dotSsh are path.includes('/etc/')
\* and path.includes('.ssh'); fixId is `fix_perm_` followed by the path with
\* every non-alphanumeric character replaced by '_'
criticalPaths ==
    << [path |-> "/home/user/.ssh", maxMode |-> Octal(7, 0, 0), system |-> FALSE,
        underEtc |-> FALSE, dotSsh |-> TRUE, fixId |-> "fix_perm__home_user__ssh"],
       [path |-> "/home/user/.ssh/id_rsa", maxMode |-> Octal(6, 0, 0), system |-> FALSE,
        underEtc |-> FALSE, dotSsh |-> TRUE, fixId |-> "fix_perm__home_user__ssh_id_rsa"],
       [path |-> "/home/user/.ssh/id_ed25519", maxMode |-> Octal(6, 0, 0), system |-> FALSE,
        underEtc |-> FALSE, dotSsh |-> TRUE, fixId |-> "fix_perm__home_user__ssh_id_ed25519"],
       [path |-> "/home/user/.ssh/authorized_keys", maxMode |-> Octal(6, 0, 0), system |-> FALSE,
        underEtc |-> FALSE, dotSsh |-> TRUE,
        fixId |-> "fix_perm__home_user__ssh_authorized_keys"],
       [path |-> "/home/user/.gnupg", maxMode |-> Octal(7, 0, 0), system |-> FALSE,
        underEtc |-> FALSE, dotSsh |-> FALSE, fixId |-> "fix_perm__home_user__gnupg"],
       [path |-> "/home/user/.config/clawdbot", maxMode |-> Octal(7, 0, 0), system |-> FALSE,
        underEtc |-> FALSE, dotSsh |-> FALSE,
        fixId |-> "fix_perm__home_user__config_clawdbot"],
       [path |-> "/etc/shadow", maxMode |-> Octal(6, 4, 0), system |-> TRUE,
        underEtc |-> TRUE, dotSsh |-> FALSE, fixId |-> "fix_perm__etc_shadow"],
       [path |-> "/etc/passwd", maxMode |-> Octal(6, 4, 4), system |-> TRUE,
        underEtc |-> TRUE, dotSsh |-> FALSE, fixId |-> "fix_perm__etc_passwd"] >>

Enoent == [kind |-> "ENOENT", mode |-> 0]
StatError == [kind |-> "error", mode |-> 0]
StatMode(m) == [kind |-> "mode", mode |-> m]

\* const isSecure = mode <= check.maxMode
modeIsSecure(mode, maxMode) == mode <= maxMode

\* indices of the paths pushed to details.issues, a set read in path order
permIssues(obs) ==
    { k \in 1..Len(criticalPaths) :
        obs.stat[k].kind = "mode"
        /\ ~modeIsSecure(obs.stat[k].mode, criticalPaths[k].maxMode) }

RECURSIVE permRecommendations(_, _)
permRecommendations(issues, k) ==
    IF k > Len(criticalPaths) THEN << >>
    ELSE (IF k \in issues
          THEN <<Rec(IF criticalPaths[k].system THEN "critical" ELSE "high",
                     "permissions should be stricter: " \o criticalPaths[k].path)>>
          ELSE << >>)
         \o permRecommendations(issues, k + 1)

RECURSIVE permFixes(_, _)
permFixes(issues, k) ==
    IF k > Len(criticalPaths) THEN << >>
    ELSE (IF k \in issues /\ ~criticalPaths[k].system
          THEN <<Fix(criticalPaths[k].fixId, TRUE)>> ELSE << >>)
         \o permFixes(issues, k + 1)

checkFilePermissions(obs) ==
    LET base == Result("File Permissions",
                       "Checks critical file and directory permissions",
                       "security")
        issues == permIssues(obs)
        hasCritical == \E k \in issues :
                          criticalPaths[k].underEtc \/ criticalPaths[k].dotSsh
        recs == permRecommendations(issues, 1)
                \o (IF obs.worldWritable
                    THEN <<Rec("medium", "Found world-writable file(s) in home directory")>>
                    ELSE << >>)
    IN  IF issues # {}
        THEN [base EXCEPT !.status = IF hasCritical THEN "critical" ELSE "warning",
                          !.message = "permission issue(s) found",
                          !.recommendations = recs,
                          !.fixes = permFixes(issues, 1)]
        ELSE [base EXCEPT !.message = "File permissions are secure",
                          !.recommendations = recs]

\* modes at, above and below the maxima, and modes that are numerically
\* small but open to group and others
ModeSamples ==
    {Octal(6, 0, 0), Octal(6, 4, 4), Octal(7, 5, 5), Octal(4, 4, 4), Octal(0, 7, 7)}

PathIdx == 1..Len(criticalPaths)

PermissionsObs ==
    UNION { { [stat |-> [k \in PathIdx |-> IF k \in P THEN f[k] ELSE Enoent],
               worldWritable |-> w] :
              f \in [P -> {StatError} \cup {StatMode(m) : m \in ModeSamples}],
              w \in BOOLEAN } :
            P \in {Q \in SUBSET PathIdx : Cardinality(Q) <= MaxPresentPaths} }

(***************************************************************************)
(* Probe: running services (checkRunningServices)                          *)
(* obs.listFails : ss/netstat or ps failed                                 *)
(* obs.running   : the names of the risk table found in a process name or  *)
(*                 a listening-socket line                                 *)
(***************************************************************************)
suspiciousServices ==
    << [name |-> "telnet", risk |-> "critical"],
       [name |-> "ftp", risk |-> "high"],
       [name |-> "rsh", risk |-> "critical"],
       [name |-> "rlogin", risk |-> "critical"],
       [name |-> "vnc", risk |-> "medium"],
       [name |-> "mysql", risk |-> "low"],
       [name |-> "postgres", risk |-> "low"],
       [name |-> "redis", risk |-> "medium"],
       [name |-> "mongo", risk |-> "medium"],
       [name |-> "docker", risk |-> "low"] >>

RECURSIVE serviceRecommendations(_, _)
serviceRecommendations(running, k) ==
    IF k > Len(suspiciousServices) THEN << >>
    ELSE (IF suspiciousServices[k].name \in running
          THEN <<Rec(suspiciousServices[k].risk,
                     suspiciousServices[k].name \o " is running")>>
          ELSE << >>)
         \o serviceRecommendations(running, k + 1)

RECURSIVE serviceFixes(_, _)
serviceFixes(running, k) ==
    IF k > Len(suspiciousServices) THEN << >>
    ELSE (IF suspiciousServices[k].name \in running
             /\ suspiciousServices[k].risk = "critical"
          THEN <<Fix("stop_" \o suspiciousServices[k].name, TRUE)>> ELSE << >>)
         \o serviceFixes(running, k + 1)

checkRunningServices(obs) ==
    LET base == Result("Running Services",
                       "Checks for potentially risky running services",
                       "security")
        risky(r) == { k \in 1..Len(suspiciousServices) :
                        suspiciousServices[k].name \in obs.running
                        /\ suspiciousServices[k].risk = r }
        found == [base EXCEPT !.recommendations = serviceRecommendations(obs.running, 1),
                              !.fixes = serviceFixes(obs.running, 1)]
    IN  IF obs.listFails
        THEN [base EXCEPT !.status = "error",
                          !.message = "Failed to check services"]
        ELSE IF risky("critical") # {}
        THEN [found EXCEPT !.status = "critical",
                           !.message = "critical-risk service(s) running!"]
        ELSE IF risky("high") # {}
        THEN [found EXCEPT !.status = "warning",
                           !.message = "high-risk service(s) detected"]
        ELSE [found EXCEPT !.message = "service(s) running, no major risks"]

ServiceNames == { suspiciousServices[k].name : k \in 1..Len(suspiciousServices) }

ServicesObs ==
    { [listFails |-> TRUE, running |-> {}] }
    \cup { [listFails |-> FALSE, running |-> R] :
           R \in {Q \in SUBSET ServiceNames : Cardinality(Q) <= MaxRunning} }

(***************************************************************************)
(* Probe: network exposure (checkNetworkExposure)                          *)
(* obs.inWSL2, obs.wslMode : isWSL2() and getWSLNetworkMode()              *)
(* obs.exposed        : number of wildcard-bound sockets with a port       *)
(* obs.portForwarding : netsh portproxy lists at least one rule            *)
(***************************************************************************)
checkNetworkExposure(obs) ==
    LET base == Result("Network Exposure",
                       "Checks for external network exposure and potential vulnerabilities",
                       "network")
        isolated == obs.inWSL2 /\ obs.wslMode = "nat"
        r1 == IF obs.exposed > 0
              THEN IF isolated
                   THEN [base EXCEPT !.status = "info",
                                     !.message = "service(s) on all interfaces (isolated by WSL2 NAT)",
                                     !.recommendations =
                                         <<Rec("info", "WSL2 NAT mode provides network isolation"),
                                           Rec("info", "Only your Windows host can access these ports")>>]
                   ELSE [base EXCEPT !.status = "warning",
                                     !.message = "service(s) exposed on all interfaces",
                                     !.recommendations =
                                         [k \in 1..obs.exposed |->
                                             Rec("medium", "Port is bound to 0.0.0.0")]]
              ELSE base
        r2 == IF obs.inWSL2 /\ obs.portForwarding
              THEN [r1 EXCEPT !.status = "warning",
                              !.recommendations =
                                  @ \o <<Rec("medium", "Windows port forwarding rule(s) detected")>>]
              ELSE r1
    IN  IF r2.status = "pass"
        THEN [r2 EXCEPT !.message = "Network configuration looks secure"]
        ELSE r2

\* the values result.status holds, one after the other, while the probe runs
networkTrace(obs) ==
    <<"pass">>
    \o (IF obs.exposed > 0
        THEN <<IF obs.inWSL2 /\ obs.wslMode = "nat" THEN "info" ELSE "warning">>
        ELSE << >>)
    \o (IF obs.inWSL2 /\ obs.portForwarding THEN <<"warning">> ELSE << >>)

NetworkObs ==
    [inWSL2 : {FALSE}, wslMode : {"none"}, exposed : 0..MaxExposed,
     portForwarding : {FALSE}]
    \cup [inWSL2 : {TRUE}, wslMode : {"nat", "mirrored"}, exposed : 0..MaxExposed,
          portForwarding : BOOLEAN]

(***************************************************************************)
(* Probe: open ports (checkOpenPorts)                                      *)
(* obs.ssFails : ss and netstat both failed                                *)
(* obs.sockets : the LISTEN lines with a local address, in output order    *)
(* obs.inWSL2, obs.wslMode : what isWSL2() and getWSLNetworkMode() answer  *)
(*               on this host; checkOpenPorts does not call them           *)
(***************************************************************************)
\* localAddr.includes('0.0.0.0') || includes('::') || includes('*')
isExposedAddr(addr) == addr \in {"0.0.0.0", "[::]", "*", "[::1]"}
\* localAddr.includes('127.0.0.1') || includes('::1')
isLocalAddr(addr) == addr \in {"127.0.0.1", "[::1]"}

socketExposed(sock) == isExposedAddr(sock.addr) /\ ~isLocalAddr(sock.addr)

safeProcess(sock) == sock.process \in {"node", "python", "python3"}

RECURSIVE portFixes(_, _)
portFixes(exposedPorts, k) ==
    IF k > Len(exposedPorts) THEN << >>
    ELSE (IF safeProcess(exposedPorts[k])
          THEN <<Fix("close_port_" \o ToString(exposedPorts[k].port), FALSE)>>
          ELSE << >>)
         \o portFixes(exposedPorts, k + 1)

portRecommendations(exposedPorts) ==
    [ k \in 1..Len(exposedPorts) |->
        Rec("medium", "Port " \o ToString(exposedPorts[k].port)
                      \o " is exposed to all interfaces") ]

checkOpenPorts(obs) ==
    LET base == Result("Open Ports",
                       "Checks for ports listening on all interfaces (0.0.0.0 or ::)",
                       "network")
        exposedPorts == Filter(obs.sockets, socketExposed)
    IN  IF obs.ssFails
        THEN [base EXCEPT !.status = "error",
                          !.message = "Failed to check ports"]
        ELSE IF Len(exposedPorts) > 0
        THEN [base EXCEPT !.status = "warning",
                          !.message = "port(s) are listening on all interfaces",
                          !.recommendations = portRecommendations(exposedPorts),
                          !.fixes = portFixes(exposedPorts, 1)]
        ELSE [base EXCEPT !.message = "No ports are exposed to external interfaces"]

Sockets ==
    { [port |-> 22, process |-> "sshd", addr |-> "0.0.0.0"],
      [port |-> 3000, process |-> "node", addr |-> "[::]"],
      [port |-> 5432, process |-> "postgres", addr |-> "127.0.0.1"],
      [port |-> 631, process |-> "cupsd", addr |-> "[::1]"] }

\* the environments a host can be: native Linux, WSL2 with NAT or mirrored
\* networking
Environments ==
    { [inWSL2 |-> FALSE, wslMode |-> "none"],
      [inWSL2 |-> TRUE, wslMode |-> "nat"],
      [inWSL2 |-> TRUE, wslMode |-> "mirrored"] }

OpenPortsObs ==
    { [ssFails |-> f, sockets |-> q, inWSL2 |-> e.inWSL2, wslMode |-> e.wslMode] :
        f \in {FALSE}, q \in SeqsUpTo(Sockets, MaxExposed), e \in Environments }
    \cup { [ssFails |-> TRUE, sockets |-> << >>, inWSL2 |-> e.inWSL2,
            wslMode |-> e.wslMode] : e \in Environments }

(***************************************************************************)
(* Probe: hardware (checkHardware)                                         *)
(* obs.siFails   : the systeminformation call outside an inner try that    *)
(*                 rejects ("none": every call answers)                    *)
(* obs.inWSL2    : isWSL2()                                                *)
(* obs.siTemp, obs.winTemp, obs.lhmCpu : CPU temperature of                *)
(*                 systeminformation, WMI and LibreHardwareMonitor (0 when *)
(*                 the source is unavailable or has no reading)            *)
(* obs.gpu       : nvidia-smi answer (temperature, fan speed %)            *)
(* obs.ohmFan    : a fan of OpenHardwareMonitor with its rpm and the value *)
(*                 of the temperature sensor found for its parent (0: no   *)
(*                 such sensor)                                            *)
(* obs.lhmFanStopped, obs.siFanStopped : that source lists a fan at 0 rpm  *)
(* obs.load, obs.memPct, obs.diskPct : load, memory and fullest disk in %  *)
(* Outside WSL2 the probe queries none of the Windows-side sources.        *)
(***************************************************************************)
cpuTemperature(obs) ==
    IF obs.inWSL2 /\ obs.siTemp = 0
    THEN IF obs.winTemp # 0 THEN obs.winTemp
         ELSE IF obs.lhmCpu # 0 THEN obs.lhmCpu
         ELSE 0
    ELSE obs.siTemp

\* if (cpuTemp > 85) ... else if (cpuTemp > 75) ...
cpuLevel(cpuTemp) ==
    IF cpuTemp > 85 THEN "critical"
    ELSE IF cpuTemp > 75 THEN "warning"
    ELSE "none"

\* if (gpuInfo.temperature > 85) ... else if (gpuInfo.temperature > 80) ...
gpuLevel(gpuTemp) ==
    IF gpuTemp > 85 THEN "critical"
    ELSE IF gpuTemp > 80 THEN "warning"
    ELSE "none"

\* stopped OHM fan with a hot related sensor
ohmFanAlert(obs) ==
    obs.inWSL2 /\ obs.ohmFan.present /\ obs.ohmFan.rpm = 0
    /\ obs.ohmFan.relatedTemp > 60

\* GPU fan at 0 % while the GPU is hot
gpuFanAlert(obs) ==
    obs.inWSL2 /\ obs.gpu.present /\ obs.gpu.fanSpeed = 0 /\ obs.gpu.temperature > 60

\* variant: a later warning check overwrites the status
ApplyLevelOverwrite(status, level) ==
    IF level = "none" THEN status ELSE level

\* result.status = 'critical', or 'warning' only if the status is still pass
ApplyLevel(status, level) ==
    IF level = "critical" THEN "critical"
    ELSE IF level = "warning" THEN WarnIfPass(status)
    ELSE status

\* the values result.status holds, one after the other, while the checks of
\* the probe run (the catch aside)
hardwareTrace(obs) ==
    LET gpu == obs.inWSL2 /\ obs.gpu.present
        s1 == IF ohmFanAlert(obs) THEN "critical" ELSE "pass"
        s2 == IF gpu THEN ApplyLevel(s1, gpuLevel(obs.gpu.temperature)) ELSE s1
        s3 == IF gpuFanAlert(obs) THEN "critical" ELSE s2
        s4 == IF obs.inWSL2 /\ obs.lhmFanStopped THEN "critical" ELSE s3
        s5 == ApplyLevel(s4, cpuLevel(cpuTemperature(obs)))
        s6 == ApplyLevel(s5, IF obs.load > 90 THEN "warning" ELSE "none")
        s7 == ApplyLevel(s6, IF obs.memPct > 90 THEN "warning" ELSE "none")
        s8 == ApplyLevel(s7, IF obs.diskPct > 90 THEN "warning" ELSE "none")
        s9 == IF obs.siFanStopped THEN "critical" ELSE s8
    IN  <<"pass", s1, s2, s3, s4, s5, s6, s7, s8, s9>>

hardwareStatus(obs) == hardwareTrace(obs)[Len(hardwareTrace(obs))]

\* the recommendations pushed before si.cpu() is called
hardwareRecsSensors(obs) ==
    LET gpu == obs.inWSL2 /\ obs.gpu.present
        cpuTemp == cpuTemperature(obs)
    IN  (IF ohmFanAlert(obs)
         THEN <<Rec("critical", "fan is at 0 RPM but temp is high")>> ELSE << >>)
        \o (IF gpu /\ gpuLevel(obs.gpu.temperature) = "critical"
            THEN <<Rec("critical", "GPU temperature CRITICAL")>>
            ELSE IF gpu /\ gpuLevel(obs.gpu.temperature) = "warning"
            THEN <<Rec("high", "GPU temperature running hot")>>
            ELSE << >>)
        \o (IF gpuFanAlert(obs)
            THEN <<Rec("critical", "GPU fan is at 0% but temperature is high")>>
            ELSE << >>)
        \o (IF obs.inWSL2 /\ obs.lhmFanStopped
            THEN <<Rec("critical", "Fan is not spinning (0 RPM)")>> ELSE << >>)
        \o (IF cpuLevel(cpuTemp) = "critical"
            THEN <<Rec("critical", "CPU temperature CRITICAL")>>
            ELSE IF cpuLevel(cpuTemp) = "warning"
            THEN <<Rec("high", "CPU temperature running hot")>>
            ELSE IF cpuTemp > 65
            THEN <<Rec("medium", "CPU temperature warm but acceptable")>>
            ELSE << >>)

\* the recommendations pushed from si.currentLoad() on
hardwareRecsSystem(obs) ==
    (IF obs.load > 90 THEN <<Rec("medium", "CPU load: system under heavy load")>>
     ELSE << >>)
    \o (IF obs.memPct > 90 THEN <<Rec("high", "Memory usage high")>> ELSE << >>)
    \o (IF obs.diskPct > 90 THEN <<Rec("high", "Disk is nearly full")>> ELSE << >>)
    \o (IF obs.siFanStopped
        THEN <<Rec("critical", "Fan is not spinning (0 RPM)")>> ELSE << >>)

checkHardware(obs) ==
    LET base == Result("Hardware Health",
                       "Monitors CPU temperature, fan speeds, and system health",
                       "hardware")
        st == hardwareStatus(obs)
    IN  IF obs.siFails = "cpuTemperature"
        THEN [base EXCEPT !.status = "error",
                          !.message = "Failed to check hardware"]
        ELSE IF obs.siFails = "cpu"
        \* the catch keeps what was pushed before the failing call
        THEN [base EXCEPT !.status = "error",
                          !.message = "Failed to check hardware",
                          !.recommendations = hardwareRecsSensors(obs)]
        ELSE [base EXCEPT !.status = st,
                          !.recommendations =
                              hardwareRecsSensors(obs) \o hardwareRecsSystem(obs),
                          !.message = IF st = "critical"
                                      THEN "Critical hardware issues detected!"
                                      ELSE IF st = "warning"
                                      THEN "Hardware warnings detected"
                                      ELSE "System healthy"]

NoGpu == [present |-> FALSE, temperature |-> 0, fanSpeed |-> 0]
NoOhmFan == [present |-> FALSE, rpm |-> 0, relatedTemp |-> 0]

SiFailures == {"none", "cpuTemperature", "cpu"}

\* temperatures around the thresholds of the probe and of the table
CpuTemps == {0, 70, 75, 76, 85, 86, 90, 91}
GpuTemps == {70, 80, 81, 86, 95}

HardwareObs ==
    [siFails : SiFailures, inWSL2 : {FALSE}, siTemp : CpuTemps,
     winTemp : {0}, lhmCpu : {0}, gpu : {NoGpu}, ohmFan : {NoOhmFan},
     lhmFanStopped : {FALSE}, siFanStopped : BOOLEAN,
     load : {50, 95}, memPct : {50, 95}, diskPct : {50, 95}]
    \cup
    [siFails : SiFailures, inWSL2 : {TRUE}, siTemp : {0, 76},
     winTemp : {0, 80}, lhmCpu : {0, 91},
     gpu : {NoGpu} \cup [present : {TRUE}, temperature : GpuTemps, fanSpeed : {0, 30}],
     ohmFan : {NoOhmFan}
              \cup [present : {TRUE}, rpm : {0, 1200}, relatedTemp : {0, 50, 70}],
     lhmFanStopped : BOOLEAN, siFanStopped : BOOLEAN,
     load : {50, 95}, memPct : {50}, diskPct : {50}]

(***************************************************************************)
(* Application audit (checkClawdbot)                                       *)
(* obs.wsl, obs.win : the run of `clawdbot security audit` in WSL and      *)
(*                    through powershell.exe: whether the command          *)
(*                    succeeded, and what parseAuditOutput makes of its    *)
(*                    output (the counts of the Summary line, the issues   *)
(*                    of the severity sections)                            *)
(* No registry holds checkClawdbot; it is called directly.                 *)
(***************************************************************************)
\* the issues the audit tool can list, in the order of its sections
IssuePool ==
    << [id |-> "fs.state_dir.perms_world_writable", severity |-> "critical",
        fix |-> TRUE, platform |-> Undefined],
       [id |-> "gateway.bind_no_auth", severity |-> "warning",
        fix |-> FALSE, platform |-> Undefined],
       [id |-> "tools.elevated", severity |-> "warning",
        fix |-> FALSE, platform |-> Undefined],
       [id |-> "logging.redact_off", severity |-> "info",
        fix |-> FALSE, platform |-> Undefined] >>

RECURSIVE PoolIssues(_, _)
PoolIssues(S, k) ==
    IF k > Len(IssuePool) THEN << >>
    ELSE (IF k \in S THEN <<IssuePool[k]>> ELSE << >>) \o PoolIssues(S, k + 1)

CountSeverity(issues, sev) ==
    Cardinality({ k \in 1..Len(issues) : issues[k].severity = sev })

\* parseAuditOutput of an output that lists the issues S of the pool
Audit(S) ==
    LET issues == PoolIssues(S, 1)
    IN  [ summary |-> [critical |-> CountSeverity(issues, "critical"),
                       warn |-> CountSeverity(issues, "warning"),
                       info |-> CountSeverity(issues, "info")],
          issues |-> issues ]

AuditRuns ==
    { [ok |-> FALSE, parsed |-> Audit({})] }
    \cup { [ok |-> TRUE, parsed |-> Audit(S)] : S \in SUBSET (1..Len(IssuePool)) }

ClawdbotObs == [wsl : AuditRuns, win : AuditRuns]

\* Math.max
MathMax(a, b) == IF a >= b THEN a ELSE b

\* winParsed.issues.map(i => ({ ...i, platform: 'windows' }))
TagWindows(issues) ==
    [ k \in 1..Len(issues) |-> [issues[k] EXCEPT !.platform = "windows"] ]

\* result.details.combined
combined(wslParsed, winParsed) ==
    [ summary |-> [critical |-> wslParsed.summary.critical + winParsed.summary.critical,
                   warn |-> wslParsed.summary.warn + winParsed.summary.warn,
                   info |-> MathMax(wslParsed.summary.info, winParsed.summary.info)],
      issues |-> wslParsed.issues \o TagWindows(winParsed.issues) ]

RECURSIVE auditFixes(_, _, _)
auditFixes(issues, platform, k) ==
    IF k > Len(issues) THEN << >>
    ELSE (IF issues[k].fix
          THEN <<[id |-> "clawdbot_" \o issues[k].id, autoFix |-> FALSE,
                  platform |-> IF issues[k].platform # Undefined
                               THEN issues[k].platform ELSE platform]>>
          ELSE << >>)
         \o auditFixes(issues, platform, k + 1)

checkClawdbot(obs) ==
    LET base == Result("Clawdbot Security",
                       "Security audit of Clawdbot/Gateway configuration",
                       "application")
        platform == IF obs.wsl.ok THEN "linux" ELSE "windows"
        wslParsed == IF obs.wsl.ok THEN obs.wsl.parsed ELSE obs.win.parsed
        winParsed == obs.win.parsed
        merges == /\ wslParsed.summary.critical = 0
                  /\ platform = "linux"
                  /\ obs.win.ok
                  /\ \/ winParsed.summary.critical > 0
                     \/ winParsed.summary.warn > wslParsed.summary.warn
        used == IF merges THEN combined(wslParsed, winParsed) ELSE wslParsed
        \* result.details.platform is not set when the results were merged
        detailsPlatform == IF merges THEN Undefined
                           ELSE IF obs.wsl.ok THEN "wsl" ELSE platform
        severityOf(issue) == IF issue.severity = "critical" THEN "critical"
                             ELSE IF issue.severity = "warning" THEN "high"
                             ELSE "low"
    IN  IF ~obs.wsl.ok /\ ~obs.win.ok
        THEN [base EXCEPT !.status = "error",
                          !.message = "Failed to run Clawdbot audit",
                          !.details = [merged |-> FALSE, summary |-> Audit({}).summary,
                                       issues |-> << >>]]
        ELSE [base EXCEPT
                !.status = IF used.summary.critical > 0 THEN "critical"
                           ELSE IF used.summary.warn > 0 THEN "warning"
                           ELSE "pass",
                !.message = IF used.summary.critical > 0
                            THEN "critical security issue(s) found!"
                            ELSE IF used.summary.warn > 0 THEN "warning(s) found"
                            ELSE "Clawdbot configuration is secure",
                !.details = [merged |-> merges, summary |-> used.summary,
                             issues |-> used.issues],
                !.recommendations =
                    [ k \in 1..Len(used.issues) |->
                        Rec(severityOf(used.issues[k]), "[" \o used.issues[k].id \o "]") ],
                !.fixes = auditFixes(used.issues, detailsPlatform, 1)]

(***************************************************************************)
(* Probe registry (checks) and fix registry (fixes)                        *)
(***************************************************************************)
\* Object.entries(checks): the registered ids in insertion order
checks ==
    <<"hardware", "openPorts", "firewall", "ssh", "gateway", "updates",
      "permissions", "services", "network">>

CheckIds == { checks[k] : k \in 1..Len(checks) }

\* what the probe registered under id can observe
Observations(id) ==
    CASE id = "hardware" -> HardwareObs
      [] id = "openPorts" -> OpenPortsObs
      [] id = "firewall" -> FirewallObs
      [] id = "ssh" -> SSHObs
      [] id = "gateway" -> GatewayObs
      [] id = "updates" -> UpdatesObs
      [] id = "permissions" -> PermissionsObs
      [] id = "services" -> ServicesObs
      [] id = "network" -> NetworkObs

\* checks[id](): the report the probe builds from what it observes
Probe(id, obs) ==
    CASE id = "hardware" -> checkHardware(obs)
      [] id = "openPorts" -> checkOpenPorts(obs)
      [] id = "firewall" -> checkFirewall(obs)
      [] id = "ssh" -> checkSSH(obs)
      [] id = "gateway" -> checkGateway(obs)
      [] id = "updates" -> checkSystemUpdates(obs)
      [] id = "permissions" -> checkFilePermissions(obs)
      [] id = "services" -> checkRunningServices(obs)
      [] id = "network" -> checkNetworkExposure(obs)

\* the state-changing commands the probe runs on the host while it checks
probeEffect(id, obs) ==
    IF id = "updates" THEN updatesEffect(obs) ELSE << >>

\* a call of a probe: what the promise settles with, and what it did to the
\* host
Call(outcome, effect) == [outcome |-> outcome, effect |-> effect]

ProbeCall(id, obs) == Call(Returned(Probe(id, obs)), probeEffect(id, obs))

\* the hosts a full run is explored on: per probe a quiet host and hosts
\* with one finding
QuietHardware ==
    [siFails |-> "none", inWSL2 |-> FALSE, siTemp |-> 70, winTemp |-> 0, lhmCpu |-> 0,
     gpu |-> NoGpu, ohmFan |-> NoOhmFan, lhmFanStopped |-> FALSE,
     siFanStopped |-> FALSE, load |-> 50, memPct |-> 50, diskPct |-> 50]
QuietPorts == [ssFails |-> FALSE, sockets |-> << >>, inWSL2 |-> FALSE, wslMode |-> "none"]
QuietFirewall ==
    [ufw |-> "active", iptables |-> 0,
     windows |-> [available |-> FALSE, profiles |-> << >>]]
QuietSSH == [sshRunning |-> FALSE, configReadable |-> FALSE, config |-> << >>]
QuietGateway ==
    [running |-> TRUE, config |-> [found |-> FALSE, localBinding |-> TRUE, hasAuth |-> TRUE]]
QuietUpdates ==
    [apt |-> [available |-> TRUE, totalUpdates |-> 0, securityUpdates |-> 0],
     dnf |-> 0, npm |-> 0]
QuietPermissions == [stat |-> [k \in PathIdx |-> Enoent], worldWritable |-> FALSE]
QuietServices == [listFails |-> FALSE, running |-> {}]
QuietNetwork == [inWSL2 |-> FALSE, wslMode |-> "none", exposed |-> 0, portForwarding |-> FALSE]

RunSample(id) ==
    CASE id = "hardware" ->
            { QuietHardware, [QuietHardware EXCEPT !.siTemp = 76],
              [QuietHardware EXCEPT !.siFails = "cpuTemperature"] }
      [] id = "openPorts" ->
            { QuietPorts,
              [QuietPorts EXCEPT !.sockets =
                  <<[port |-> 3000, process |-> "node", addr |-> "[::]"]>>] }
      [] id = "firewall" ->
            { QuietFirewall, [QuietFirewall EXCEPT !.ufw = "notInstalled"] }
      [] id = "ssh" ->
            { QuietSSH,
              [sshRunning |-> TRUE, configReadable |-> TRUE,
               config |-> <<Line("PermitRootLogin", "yes")>>] }
      [] id = "gateway" ->
            { QuietGateway, [QuietGateway EXCEPT !.running = FALSE] }
      [] id = "updates" ->
            { QuietUpdates,
              [QuietUpdates EXCEPT !.apt.available = FALSE],
              [QuietUpdates EXCEPT !.apt.totalUpdates = 1, !.apt.securityUpdates = 1] }
      [] id = "permissions" ->
            { QuietPermissions,
              [QuietPermissions EXCEPT !.stat[1] = StatMode(Octal(7, 5, 5))] }
      [] id = "services" ->
            { QuietServices, [QuietServices EXCEPT !.running = {"rsh"}],
              [QuietServices EXCEPT !.listFails = TRUE] }
      [] id = "network" ->
            { QuietNetwork, [QuietNetwork EXCEPT !.exposed = 1],
              [inWSL2 |-> TRUE, wslMode |-> "nat", exposed |-> 1,
               portForwarding |-> FALSE] }

\* `await checkFn()`: the promise resolves with the probe's report, or it
\* rejects with an error the probe did not catch
CallOutcomes ==
    [ id \in CheckIds |->
        { ProbeCall(id, obs) : obs \in RunSample(id) }
        \cup { Call(Thrown(m), << >>) : m \in ProbeErrorTexts } ]

(***************************************************************************)
(* JavaScript object lookup                                                *)
(***************************************************************************)
\* properties every object literal inherits from Object.prototype; the
\* three stand for: a function returning an object, a function returning a
\* string, and a value that is not a function
ObjectPrototypeKeys == {"constructor", "toString", "__proto__"}

\* obj[key] is truthy: own keys hold functions, inherited ones are found
\* through the prototype chain
Truthy(ownKeys, key) == key \in ownKeys \cup ObjectPrototypeKeys

\* variant: the assignment result.id = id is missing
SetIdMissing(report, id) == report

\* result.id = id on a report object (overrides an id the probe had set)
SetId(report, id) == [id |-> id] @@ report

(***************************************************************************)
(* Aggregator: runAllChecks                                                *)
(***************************************************************************)
\* variant: totalChecks is the size of the registry without the hardware probe
NewResultsStale ==
    [ overallScore |-> 0, totalChecks |-> Len(checks) - 1,
      passed |-> 0, info |-> 0, warnings |-> 0, critical |-> 0,
      checks |-> << >> ]

NewResults ==
    [ overallScore |-> 0, totalChecks |-> Len(checks),
      passed |-> 0, info |-> 0, warnings |-> 0, critical |-> 0,
      checks |-> << >> ]

\* Math.round(n / d) for n >= 0, d > 0
MathRound(n, d) == (2 * n + d) \div (2 * d)

\* variant: the chain without the info branch
TallyNoInfo(res, status) ==
    IF status = "pass" THEN [res EXCEPT !.passed = @ + 1]
    ELSE IF status = "warning" THEN [res EXCEPT !.warnings = @ + 1]
    ELSE IF status = "critical" THEN [res EXCEPT !.critical = @ + 1]
    ELSE res

\* the if / else-if chain that tallies one report
Tally(res, status) ==
    IF status = "pass" THEN [res EXCEPT !.passed = @ + 1]
    ELSE IF status = "info" THEN [res EXCEPT !.info = @ + 1]
    ELSE IF status = "warning" THEN [res EXCEPT !.warnings = @ + 1]
    ELSE IF status = "critical" THEN [res EXCEPT !.critical = @ + 1]
    ELSE res

\* the catch branch of the loop: the synthetic report of a probe that threw
SyntheticReport(id, msg) ==
    [id |-> id, name |-> id, status |-> "error", message |-> msg]

\* variant: the catch branch swallows the error without recording a report
LoopBodySwallow(res, id, outcome) ==
    IF outcome.kind = "returned"
    THEN LET result == SetId(outcome.value, id)
         IN  Tally([res EXCEPT !.checks = Append(@, result)], result.status)
    ELSE res

\* one iteration of the for..of loop over Object.entries(checks)
LoopBody(res, id, outcome) ==
    IF outcome.kind = "returned"
    THEN LET result == SetId(outcome.value, id)
         IN  Tally([res EXCEPT !.checks = Append(@, result)], result.status)
    ELSE [res EXCEPT !.checks = Append(@, SyntheticReport(id, outcome.message))]

\* variant: a warning weighs as much as a pass
ScoreWarnFull(res) ==
    MathRound((res.passed + res.info) * 100 + res.warnings * 100, res.totalChecks)

\* variant: info is left out of the numerator
ScoreNoInfo(res) ==
    MathRound(res.passed * 100 + res.warnings * 50, res.totalChecks)

Score(res) ==
    MathRound((res.passed + res.info) * 100 + res.warnings * 50, res.totalChecks)

IsFinding(outcome) ==
    outcome.kind = "thrown" \/ outcome.value.status \notin {"pass", "info"}

Findings(history) == Cardinality({ k \in 1..Len(history) : IsFinding(history[k]) })

NoRequest == [route |-> "none", id |-> "", params |-> << >>]
NoResponse == [code |-> 0, body |-> << >>]
NoInput == [id |-> "", obs |-> << >>]

\* variant: the call is made without awaiting the one before
AwaitNone(pending) == TRUE

\* `await checkFn()` in the loop body: the loop goes on to the next entry
\* only when no call is pending
Await(pending) == pending = {}

\* the for..of loop over Object.entries(checks) is exhausted
LoopDone(i) == i > Len(checks)

\* GET /api/checks arrives: runAllChecks creates its Result Set
StartRunAll ==
    /\ pc \in {"idle", "done"}
    /\ Len(hostLog) < MaxHostLog
    /\ pc' = "running"
    /\ idx' = 1
    /\ results' = NewResults
    /\ observed' = << >>
    /\ request' = [route |-> "GET /api/checks", id |-> "", params |-> << >>]
    /\ response' = NoResponse
    /\ executed' = << >>
    /\ inFlight' = {}
    /\ UNCHANGED <<hostLog, input, runs, lhm>>

\* the loop takes the next entry and calls its probe: checkFn()
InvokeProbe ==
    /\ pc = "running"
    /\ ~LoopDone(idx)
    /\ Await(inFlight)
    /\ inFlight' = inFlight \cup {idx}
    /\ idx' = idx + 1
    /\ UNCHANGED <<pc, results, observed, request, response, executed, hostLog, input,
                   runs, lhm>>

\* the pending call of entry k settles with call, and the rest of the loop
\* body records its report
Settle(k, call) ==
    /\ observed' = Append(observed, call.outcome)
    /\ results' = LoopBody(results, checks[k], call.outcome)
    /\ hostLog' = hostLog \o call.effect
    /\ inFlight' = inFlight \ {k}

\* a pending call settles and the rest of the loop body records its report
ProbeStep ==
    /\ pc = "running"
    /\ \E k \in inFlight :
        \E call \in CallOutcomes[checks[k]] :
            /\ Findings(Append(observed, call.outcome)) <= MaxFindings
            /\ Settle(k, call)
    /\ UNCHANGED <<pc, idx, request, response, executed, input, runs, lhm>>

\* after the loop: compute the score, return, and the route sends the JSON
FinishRunAll ==
    /\ pc = "running"
    /\ LoopDone(idx)
    /\ inFlight = {}
    /\ results' = [results EXCEPT !.overallScore = Score(results)]
    /\ pc' = "done"
    /\ response' = [code |-> 200, body |-> [kind |-> "resultSet"]]
    /\ UNCHANGED <<idx, observed, request, executed, hostLog, inFlight, input, runs, lhm>>

(***************************************************************************)
(* Overlapping GET /api/checks requests                                    *)
(* Each request is an async call of runAllChecks that is suspended at      *)
(* `await checkFn()`; while it is suspended the event loop runs the other  *)
(* requests.                                                               *)
(***************************************************************************)
\* the requests that can be in progress together
Invocations == {1, 2}

NoRun == [pc |-> "idle", idx |-> 1, results |-> NewResults]
NoRuns == [r \in Invocations |-> NoRun]

\* variant: results is one object of the module, used by every call
ModuleResults(r) == 1

\* `const results = {...}` inside runAllChecks: the object of call r belongs
\* to call r
LocalResults(r) == r

\* the host overlapping requests are explored on: three probes have
\* something to report or throw, at the start, in the middle and near the
\* end of the registry; the other probes find a quiet host
Quiet(id) ==
    CASE id = "hardware" -> QuietHardware
      [] id = "openPorts" -> QuietPorts
      [] id = "firewall" -> QuietFirewall
      [] id = "ssh" -> QuietSSH
      [] id = "gateway" -> QuietGateway
      [] id = "updates" -> QuietUpdates
      [] id = "permissions" -> QuietPermissions
      [] id = "services" -> QuietServices
      [] id = "network" -> QuietNetwork

OverlapOutcomes ==
    [ id \in CheckIds |->
        IF id \in {"hardware", "gateway", "services"}
        THEN CallOutcomes[id]
        ELSE { ProbeCall(id, Quiet(id)) } ]

\* request r arrives: its call of runAllChecks creates the results object
StartRun(r) ==
    /\ runs[r].pc = "idle"
    /\ runs' = [[runs EXCEPT ![r].pc = "running", ![r].idx = 1]
                    EXCEPT ![LocalResults(r)].results = NewResults]
    /\ UNCHANGED <<pc, idx, results, observed, request, response, executed,
                   hostLog, inFlight, input, lhm>>

\* the call of request r resumes from `await checkFn()` and runs the rest of
\* the loop body, up to the await of the next iteration
StepRun(r) ==
    /\ runs[r].pc = "running"
    /\ ~LoopDone(runs[r].idx)
    /\ \E call \in OverlapOutcomes[checks[runs[r].idx]] :
        /\ runs' = [[runs EXCEPT ![r].idx = @ + 1]
                        EXCEPT ![LocalResults(r)].results =
                                   LoopBody(@, checks[runs[r].idx], call.outcome)]
        /\ hostLog' = hostLog \o call.effect
    /\ UNCHANGED <<pc, idx, results, observed, request, response, executed,
                   inFlight, input, lhm>>

\* after the loop of request r: the score, and the route sends the JSON
FinishRun(r) ==
    /\ runs[r].pc = "running"
    /\ LoopDone(runs[r].idx)
    /\ runs' = [[runs EXCEPT ![r].pc = "done"]
                    EXCEPT ![LocalResults(r)].results.overallScore =
                               Score(runs[LocalResults(r)].results)]
    /\ UNCHANGED <<pc, idx, results, observed, request, response, executed,
                   hostLog, inFlight, input, lhm>>

(***************************************************************************)
(* The hardware probe and the sensor HTTP bridge                           *)
(* In WSL2 checkHardware starts with getLibreHardwareMonitorData(): a      *)
(* fetch of http://localhost:8085/data.json with AbortSignal.timeout(3000) *)
(* inside try / catch.  Time is counted in seconds.                        *)
(***************************************************************************)
\* AbortSignal.timeout(3000)
AbortAfter == 3

\* what the bridge does with the connection it accepted: it answers with the
\* sensor tree, it closes the connection, or it never responds
BridgeBehaviours == {"responds", "refuses", "silent"}

\* WSL2 hosts whose only temperature and fan readings are those of the bridge
BridgeHosts ==
    { [QuietHardware EXCEPT !.inWSL2 = TRUE, !.siTemp = 0, !.lhmCpu = c,
                            !.lhmFanStopped = f] : c \in {0, 91}, f \in BOOLEAN }

NoFetch == [phase |-> "none", elapsed |-> 0, server |-> "none", data |-> FALSE,
            host |-> QuietHardware]

\* lhmData is null: no reading of the bridge reaches the probe
WithoutLHM(obs) == [obs EXCEPT !.lhmCpu = 0, !.lhmFanStopped = FALSE]

\* the position of hardware in the registry
HardwareIdx == CHOOSE k \in 1..Len(checks) : checks[k] = "hardware"

\* variant: fetch is called without a signal
TimedOutNever(elapsed) == FALSE

\* the timer of AbortSignal.timeout has run out
TimedOut(elapsed) == elapsed >= AbortAfter

\* lhmData = await getLibreHardwareMonitorData(): the request is sent
FetchLHM ==
    /\ pc = "running"
    /\ HardwareIdx \in inFlight
    /\ lhm.phase \in {"none", "done"}
    /\ \E host \in BridgeHosts, server \in BridgeBehaviours :
        lhm' = [phase |-> "pending", elapsed |-> 0, server |-> server,
                data |-> FALSE, host |-> host]
    /\ UNCHANGED <<pc, idx, results, observed, request, response, executed,
                   hostLog, inFlight, input, runs>>

\* a second passes while the fetch is pending
Tick ==
    /\ lhm.phase = "pending"
    /\ lhm.elapsed < AbortAfter
    /\ lhm' = [lhm EXCEPT !.elapsed = @ + 1]
    /\ UNCHANGED <<pc, idx, results, observed, request, response, executed,
                   hostLog, inFlight, input, runs>>

\* the bridge answers 200 with the sensor tree: return await response.json()
BridgeAnswers ==
    /\ lhm.phase = "pending"
    /\ lhm.server = "responds"
    /\ lhm' = [lhm EXCEPT !.phase = "settled", !.data = TRUE]
    /\ UNCHANGED <<pc, idx, results, observed, request, response, executed,
                   hostLog, inFlight, input, runs>>

\* the connection is closed: fetch rejects, the catch is empty, return null
BridgeRefuses ==
    /\ lhm.phase = "pending"
    /\ lhm.server = "refuses"
    /\ lhm' = [lhm EXCEPT !.phase = "settled", !.data = FALSE]
    /\ UNCHANGED <<pc, idx, results, observed, request, response, executed,
                   hostLog, inFlight, input, runs>>

\* the signal aborts the fetch: it rejects, the catch is empty, return null
AbortTimeout ==
    /\ lhm.phase = "pending"
    /\ TimedOut(lhm.elapsed)
    /\ lhm' = [lhm EXCEPT !.phase = "settled", !.data = FALSE]
    /\ UNCHANGED <<pc, idx, results, observed, request, response, executed,
                   hostLog, inFlight, input, runs>>

\* checkHardware goes on after the await, with or without lhmData, and
\* returns its report to the loop of runAllChecks
HardwareSettles ==
    /\ pc = "running"
    /\ HardwareIdx \in inFlight
    /\ lhm.phase = "settled"
    /\ Settle(HardwareIdx,
              ProbeCall("hardware",
                        IF lhm.data THEN lhm.host ELSE WithoutLHM(lhm.host)))
    /\ lhm' = [lhm EXCEPT !.phase = "done"]
    /\ UNCHANGED <<pc, idx, request, response, executed, input, runs>>

\* a pending call of another probe settles
OtherProbeStep ==
    /\ pc = "running"
    /\ \E k \in inFlight \ {HardwareIdx} :
        \E call \in OverlapOutcomes[checks[k]] : Settle(k, call)
    /\ UNCHANGED <<pc, idx, request, response, executed, input, runs, lhm>>

(***************************************************************************)
(* runCheck and GET /api/checks/:checkId                                   *)
(***************************************************************************)
\* runCheck(checkId), given what the probe call yields when it is made
runCheck(checkId, outcome) ==
    IF ~Truthy(CheckIds, checkId)
    THEN Thrown("Unknown check: " \o checkId)
    ELSE IF checkId \in CheckIds
    THEN IF outcome.kind = "returned"
         THEN Returned(SetId(outcome.value, checkId))
         ELSE outcome
    ELSE IF checkId = "constructor"
    \* Object() returns a new empty object, which then gets the id
    THEN Returned(SetId(<< >>, checkId))
    ELSE IF checkId = "toString"
    \* the call returns a string; assigning a property to it throws in
    \* module (strict) code
    THEN Thrown("TypeError: Cannot create property 'id' on string")
    ELSE Thrown("TypeError: checks[checkId] is not a function")

\* the try / catch of the Express routes: res.json(result) or status 500
Respond(outcome) ==
    IF outcome.kind = "returned"
    THEN [code |-> 200, body |-> outcome.value]
    ELSE [code |-> 500, body |-> [error |-> outcome.message]]

RequestCheckIds == CheckIds \cup ObjectPrototypeKeys \cup {"nosuch"}

NotCalled == Call(Thrown("not called"), << >>)

\* the route handler of GET /api/checks/:checkId with what the probe call,
\* if one is made, yields; a probe is invoked only for a registered id
ServeCheck(checkId, call) ==
    /\ pc = "idle"
    /\ Len(hostLog) < MaxHostLog
    /\ request' = [route |-> "GET /api/checks/:checkId", id |-> checkId,
                   params |-> << >>]
    /\ observed' = IF checkId \in CheckIds THEN <<call.outcome>> ELSE << >>
    /\ hostLog' = IF checkId \in CheckIds THEN hostLog \o call.effect ELSE hostLog
    /\ response' = Respond(runCheck(checkId, call.outcome))
    /\ executed' = << >>
    /\ UNCHANGED <<pc, idx, results, inFlight, input, runs, lhm>>

GetCheck ==
    \E checkId \in RequestCheckIds :
        \E call \in (IF checkId \in CheckIds THEN CallOutcomes[checkId]
                     ELSE {NotCalled}) :
            ServeCheck(checkId, call)

\* the same request for the probe and on the host of input
GetCheckOnHost ==
    /\ input # NoInput
    /\ request = NoRequest
    /\ ServeCheck(input.id, ProbeCall(input.id, input.obs))

\* checkClawdbot() called on the host of input
CallClawdbot ==
    /\ input # NoInput
    /\ input.id = "clawdbot"
    /\ observed = << >>
    /\ observed' = <<Returned(checkClawdbot(input.obs))>>
    /\ UNCHANGED <<pc, idx, results, request, response, executed, hostLog, inFlight,
                   input, runs, lhm>>

(***************************************************************************)
(* Fix dispatcher: the fixes registry, applyFix, POST /api/fixes/:fixId    *)
(***************************************************************************)
FixIds ==
    {"enable_ufw", "enable_windows_firewall", "install_security_updates",
     "install_all_updates", "harden_ssh", "stop_telnet", "stop_ftp",
     "fix_permissions"}

\* the JSON bodies a client posts: {}, a path only, a path and a mode
NoParams == << >>
ParamValues ==
    { NoParams, [path |-> "/home/user/.ssh"],
      [path |-> "/home/user/.ssh", mode |-> "700"] }

\* !params?.path || !params?.mode
MissingParams(params) ==
    "path" \notin DOMAIN params \/ "mode" \notin DOMAIN params

\* the command lines a fix passes to execAsync, in order
fixCommands(fixId, params) ==
    CASE fixId = "enable_ufw" ->
            <<"sudo ufw --force enable", "sudo ufw default deny incoming",
              "sudo ufw default allow outgoing">>
      [] fixId = "enable_windows_firewall" ->
            <<"powershell.exe Set-NetFirewallProfile -Enabled True">>
      [] fixId = "install_security_updates" ->
            <<"sudo apt-get upgrade -y --only-upgrade (security)">>
      [] fixId = "install_all_updates" ->
            <<"sudo apt-get upgrade -y">>
      [] fixId = "harden_ssh" ->
            <<"sudo cp /etc/ssh/sshd_config /etc/ssh/sshd_config.backup",
              "echo hardenedConfig | sudo tee -a /etc/ssh/sshd_config",
              "sudo systemctl restart sshd || sudo service ssh restart">>
      [] fixId = "stop_telnet" ->
            <<"sudo systemctl stop telnet.socket telnetd xinetd 2>/dev/null || true",
              "sudo systemctl disable telnet.socket telnetd xinetd 2>/dev/null || true">>
      [] fixId = "stop_ftp" ->
            <<"sudo systemctl stop vsftpd proftpd pure-ftpd 2>/dev/null || true",
              "sudo systemctl disable vsftpd proftpd pure-ftpd 2>/dev/null || true">>
      [] fixId = "fix_permissions" ->
            IF MissingParams(params) THEN << >> ELSE <<"chmod mode path">>

fixSuccessMessage(fixId) ==
    CASE fixId = "enable_ufw" -> "UFW enabled with default deny incoming policy"
      [] fixId = "enable_windows_firewall" -> "Windows Firewall enabled for all profiles"
      [] fixId = "install_security_updates" -> "Security updates installed"
      [] fixId = "install_all_updates" -> "All updates installed"
      [] fixId = "harden_ssh" ->
            "SSH configuration hardened. Backup saved at /etc/ssh/sshd_config.backup"
      [] fixId = "stop_telnet" -> "Telnet services stopped and disabled"
      [] fixId = "stop_ftp" -> "FTP services stopped and disabled"
      [] fixId = "fix_permissions" -> "Fixed permissions"

\* the command lines that end in `2>/dev/null || true`
Tolerant(cmd) ==
    cmd \in { "sudo systemctl stop telnet.socket telnetd xinetd 2>/dev/null || true",
              "sudo systemctl disable telnet.socket telnetd xinetd 2>/dev/null || true",
              "sudo systemctl stop vsftpd proftpd pure-ftpd 2>/dev/null || true",
              "sudo systemctl disable vsftpd proftpd pure-ftpd 2>/dev/null || true" }

\* the exec calls a fix made when its call number failAt rejects with err
\* (failAt = 0: none rejects) and the program of call number swallowedAt
\* fails inside a tolerant command line (0: none does): the commands before
\* the rejecting one, then the rejecting one
execCalls(cmds, failAt, err, swallowedAt) ==
    [ k \in 1..(IF failAt = 0 THEN Len(cmds) ELSE failAt) |->
        IF k = failAt THEN Failed(cmds[k], err)
        ELSE IF k = swallowedAt THEN Swallowed(cmds[k])
        ELSE Ran(cmds[k]) ]

\* variant: the fix has no try / catch and the error escapes
fixRethrow(err) == Thrown(err)

\* catch (error) { return { success: false, message: error.message } }
fixCatch(err) == Returned([success |-> FALSE, message |-> err])

\* fixes[fixId](params): what the fix returns (or throws)
fixes(fixId, params, failAt, err) ==
    IF fixId = "fix_permissions" /\ MissingParams(params)
    THEN Returned([success |-> FALSE, message |-> "Missing path or mode parameter"])
    ELSE IF failAt # 0
    THEN fixCatch(err)
    ELSE Returned([success |-> TRUE, message |-> fixSuccessMessage(fixId)])

\* applyFix(fixId, params)
applyFix(fixId, params, failAt, err) ==
    IF ~Truthy(FixIds, fixId)
    THEN Thrown("Unknown fix: " \o fixId)
    ELSE IF fixId \in FixIds
    THEN fixes(fixId, params, failAt, err)
    ELSE IF fixId = "constructor"
    \* Object(params) returns the request body itself
    THEN Returned(params)
    ELSE IF fixId = "toString"
    THEN Returned([string |-> "[object Object]"])
    ELSE Thrown("TypeError: fixes[fixId] is not a function")

RequestFixIds == FixIds \cup ObjectPrototypeKeys \cup {"nosuch", "stop_rsh"}

\* effect on the host of the exec calls made: every command that ran took
\* effect; a failing one may have taken effect in part
hostEffect(calls, partial) ==
    LET took(c) == c.exit = 0 \/ partial
    IN  Filter(calls, took)

PostFix ==
    /\ pc = "idle"
    /\ Len(hostLog) < MaxHostLog
    /\ \E fixId \in RequestFixIds, params \in ParamValues :
        LET cmds == IF fixId \in FixIds THEN fixCommands(fixId, params) ELSE << >>
        IN  \E failAt \in 0..Len(cmds), err \in ErrorTexts, partial \in BOOLEAN,
               swallowedAt \in 0..Len(cmds) :
                \* a program fails unnoticed only inside a tolerant command line
                \* that was run
                /\ (swallowedAt # 0 =>
                      /\ Tolerant(cmds[swallowedAt])
                      /\ (failAt = 0 \/ swallowedAt < failAt))
                \* without a rejecting call there is no error, and without a
                \* failing program no partial effect
                /\ (failAt = 0 => err = "ETIMEDOUT")
                /\ (failAt = 0 /\ swallowedAt = 0 => ~partial)
                /\ request' = [route |-> "POST /api/fixes/:fixId", id |-> fixId,
                               params |-> params]
                /\ executed' = execCalls(cmds, failAt, err, swallowedAt)
                /\ hostLog' = hostLog \o hostEffect(execCalls(cmds, failAt, err, swallowedAt),
                                                    partial)
                /\ response' = Respond(applyFix(fixId, params, failAt, err))
    /\ observed' = << >>
    /\ UNCHANGED <<pc, idx, results, inFlight, input, runs, lhm>>

(***************************************************************************)
(* harden_ssh and the SSH probe on one host                                *)
(* input.obs.config is the sshd_config of the host; observed is the        *)
(* history of what the requests made so far returned.                      *)
(***************************************************************************)
\* the directive lines of hardenedConfig
hardenedConfig ==
    << Line("PermitRootLogin", "no"), Line("PasswordAuthentication", "no"),
       Line("PubkeyAuthentication", "yes"), Line("X11Forwarding", "no"),
       Line("MaxAuthTries", "3"), Line("AllowAgentForwarding", "no") >>

\* echo '${hardenedConfig}' | sudo tee -a /etc/ssh/sshd_config
AppendHardened(config) == config \o hardenedConfig

IsFixOutcome(outcome) == outcome.kind = "returned" /\ "success" \in DOMAIN outcome.value
IsReport(outcome) == outcome.kind = "returned" /\ "status" \in DOMAIN outcome.value

HardenCount(history) ==
    Cardinality({ k \in 1..Len(history) : IsFixOutcome(history[k]) })

\* GET /api/checks/ssh on the host as it is now
GetSSHCheck ==
    /\ input.id = "ssh"
    /\ Len(observed) < MaxApplications + 2
    /\ LET call == ProbeCall("ssh", input.obs)
       IN  /\ request' = [route |-> "GET /api/checks/:checkId", id |-> "ssh",
                          params |-> << >>]
           /\ response' = Respond(runCheck("ssh", call.outcome))
           /\ observed' = Append(observed, call.outcome)
           /\ hostLog' = hostLog \o call.effect
    /\ executed' = << >>
    /\ UNCHANGED <<pc, idx, results, inFlight, input, runs, lhm>>

\* POST /api/fixes/harden_ssh: backup, append, restart; the config has the
\* block appended when tee ran, and may have it when tee failed
PostHardenSSH ==
    /\ input.id = "ssh"
    /\ Len(observed) < MaxApplications + 2
    /\ HardenCount(observed) < MaxApplications
    /\ \E failAt \in 0..3, err \in ErrorTexts, partial \in BOOLEAN :
        LET cmds == fixCommands("harden_ssh", NoParams)
            calls == execCalls(cmds, failAt, err, 0)
            outcome == applyFix("harden_ssh", NoParams, failAt, err)
            appended == failAt = 0 \/ failAt = 3 \/ (failAt = 2 /\ partial)
        IN  /\ (failAt = 0 => err = "ETIMEDOUT")
            /\ (failAt # 2 => ~partial)
            /\ request' = [route |-> "POST /api/fixes/:fixId", id |-> "harden_ssh",
                           params |-> NoParams]
            /\ executed' = calls
            /\ hostLog' = hostLog \o hostEffect(calls, partial)
            /\ response' = Respond(outcome)
            /\ observed' = Append(observed, outcome)
            /\ input' = IF appended
                        THEN [input EXCEPT !.obs.config = AppendHardened(@)]
                        ELSE input
    /\ UNCHANGED <<pc, idx, results, inFlight, runs, lhm>>

(***************************************************************************)
(* Specifications                                                          *)
(***************************************************************************)
Init ==
    /\ pc = "idle"
    /\ idx = 1
    /\ results = NewResults
    /\ observed = << >>
    /\ request = NoRequest
    /\ response = NoResponse
    /\ executed = << >>
    /\ hostLog = << >>
    /\ inFlight = {}
    /\ input = NoInput
    /\ runs = NoRuns
    /\ lhm = NoFetch

\* the aggregator serving GET /api/checks
Next == StartRunAll \/ InvokeProbe \/ ProbeStep \/ FinishRunAll

Spec == Init /\ [][Next]_vars

\* single-id requests: GET /api/checks/:checkId and POST /api/fixes/:fixId
NextDispatch == GetCheck \/ PostFix

SpecDispatch == Init /\ [][NextDispatch]_vars

\* one probe on one host: every probe of the registry on every host of its
\* observation set, requested through GET /api/checks/:checkId
ProbeInputs ==
    UNION { { [id |-> id, obs |-> obs] : obs \in Observations(id) } : id \in CheckIds }

InitProbe ==
    /\ pc = "idle"
    /\ idx = 1
    /\ results = NewResults
    /\ observed = << >>
    /\ request = NoRequest
    /\ response = NoResponse
    /\ executed = << >>
    /\ hostLog = << >>
    /\ inFlight = {}
    /\ input \in ProbeInputs
    /\ runs = NoRuns
    /\ lhm = NoFetch

NextProbe == GetCheckOnHost

SpecProbe == InitProbe /\ [][NextProbe]_vars

\* the application audit on every pair of audit runs
AuditInputs == { [id |-> "clawdbot", obs |-> obs] : obs \in ClawdbotObs }

InitAudit ==
    /\ pc = "idle"
    /\ idx = 1
    /\ results = NewResults
    /\ observed = << >>
    /\ request = NoRequest
    /\ response = NoResponse
    /\ executed = << >>
    /\ hostLog = << >>
    /\ inFlight = {}
    /\ input \in AuditInputs
    /\ runs = NoRuns
    /\ lhm = NoFetch

NextAudit == CallClawdbot

SpecAudit == InitAudit /\ [][NextAudit]_vars

\* the SSH probe and harden_ssh, in any order, on a host whose sshd runs
\* with a readable config of at most one directive line, or with root and
\* password login both switched on
HardenConfigs ==
    SeqsUpTo(ConfigLines, 1)
    \cup { <<Line("PermitRootLogin", "yes"), Line("PasswordAuthentication", "Yes")>> }

InitHarden ==
    /\ pc = "idle"
    /\ idx = 1
    /\ results = NewResults
    /\ observed = << >>
    /\ request = NoRequest
    /\ response = NoResponse
    /\ executed = << >>
    /\ hostLog = << >>
    /\ inFlight = {}
    /\ input \in { [id |-> "ssh",
                     obs |-> [sshRunning |-> TRUE, configReadable |-> TRUE,
                              config |-> c]] : c \in HardenConfigs }
    /\ runs = NoRuns
    /\ lhm = NoFetch

NextHarden == GetSSHCheck \/ PostHardenSSH

SpecHarden == InitHarden /\ [][NextHarden]_vars

\* GET /api/checks requests that overlap
NextOverlap == \E r \in Invocations : StartRun(r) \/ StepRun(r) \/ FinishRun(r)

SpecOverlap == Init /\ [][NextOverlap]_vars

\* GET /api/checks on a WSL2 host with the sensor bridge; the timers of the
\* runtime fire, every command the probes run ends (each exec call has a
\* timeout or reads local state), and the event loop resumes a call whose
\* await has settled; the bridge itself is under no obligation to answer
NextBridge ==
    \/ StartRunAll \/ InvokeProbe \/ FetchLHM \/ Tick \/ BridgeAnswers
    \/ BridgeRefuses \/ AbortTimeout \/ HardwareSettles \/ OtherProbeStep
    \/ FinishRunAll

SpecBridge ==
    /\ Init
    /\ [][NextBridge]_vars
    /\ WF_vars(InvokeProbe)
    /\ WF_vars(FetchLHM)
    /\ WF_vars(Tick)
    /\ WF_vars(BridgeRefuses)
    /\ WF_vars(AbortTimeout)
    /\ WF_vars(HardwareSettles)
    /\ WF_vars(OtherProbeStep)
    /\ WF_vars(FinishRunAll)

(***************************************************************************)
(* Properties                                                              *)
(***************************************************************************)
CountStatus(chks, st) == Cardinality({ k \in 1..Len(chks) : chks[k].status = st })

TallySum == results.passed + results.info + results.warnings + results.critical

SomeThrown == \E k \in 1..Len(observed) : observed[k].kind = "thrown"
SomeReturned == \E k \in 1..Len(observed) : observed[k].kind = "returned"

RunAllDone == pc = "done" /\ request.route = "GET /api/checks"

\* C1: whatever subset of probes throws, runAllChecks records one report per
\* probe invoked and completes with a 200 response: a throwing probe leaves
\* the synthetic report {id, name: id, status: 'error', message: the
\* exception's message}, and a probe that returned leaves exactly the report
\* it built (plus the id), untouched by throws of other probes.
C1_Isolation ==
    /\ Len(results.checks) = Len(observed)
    /\ \A k \in 1..Len(observed) :
        LET entry == results.checks[k]
        IN  IF observed[k].kind = "thrown"
            THEN entry = [id |-> checks[k], name |-> checks[k], status |-> "error",
                          message |-> observed[k].message]
            ELSE /\ DOMAIN entry = DOMAIN observed[k].value \cup {"id"}
                 /\ \A f \in DOMAIN observed[k].value : entry[f] = observed[k].value[f]
    /\ (pc = "running" => Len(observed) + Cardinality(inFlight) = idx - 1)
    /\ (RunAllDone => Len(results.checks) = Len(checks) /\ response.code = 200)

C1_Witness ==
    /\ RunAllDone
    /\ observed[1].kind = "thrown"
    /\ observed[2].kind = "returned"
    /\ observed[2].value.status = "pass"
    /\ observed[8].kind = "thrown"

\* C2: every returned Result Set has 0 <= overallScore <= 100, and the score
\* is 100 exactly when every check has status pass or info.
C2_ScoreRange ==
    RunAllDone =>
        /\ results.overallScore >= 0
        /\ results.overallScore <= 100
        /\ (results.overallScore = 100
              <=> \A k \in 1..Len(results.checks) :
                      results.checks[k].status \in {"pass", "info"})

C2_Witness ==
    /\ RunAllDone
    /\ results.overallScore = 100
    /\ CountStatus(results.checks, "info") = 2

\* C3: overallScore is the integer nearest to
\* ((#pass + #info) * 100 + #warning * 50) / totalChecks, counting the
\* statuses of the reports in the set (critical and error add nothing); with
\* 5 pass, 2 info, 1 warning and 1 critical out of 9 it is 83.
C3_ScoreFormula ==
    RunAllDone =>
        LET p == CountStatus(results.checks, "pass")
            i == CountStatus(results.checks, "info")
            w == CountStatus(results.checks, "warning")
            c == CountStatus(results.checks, "critical")
            num == (p + i) * 100 + w * 50
            diff == results.overallScore * results.totalChecks - num
        IN  /\ 2 * diff <= results.totalChecks
            /\ 2 * diff > 0 - results.totalChecks
            /\ (p = 5 /\ i = 2 /\ w = 1 /\ c = 1 => results.overallScore = 83)

C3_Witness ==
    /\ RunAllDone
    /\ CountStatus(results.checks, "pass") = 5
    /\ CountStatus(results.checks, "info") = 2
    /\ CountStatus(results.checks, "warning") = 1
    /\ CountStatus(results.checks, "critical") = 1
    /\ results.overallScore = 83

\* C4 as stated: the four tallies sum to at most totalChecks, and to less
\* only when some probe threw.
C4_Original ==
    RunAllDone =>
        /\ TallySum <= results.totalChecks
        /\ (TallySum < results.totalChecks => SomeThrown)

\* C4 amended: the four tallies sum to totalChecks minus the number of
\* reports with status error, whether the probe threw or returned a report
\* with status error itself; so the sum is less only when the set holds an
\* error report.
C4_TallySum ==
    RunAllDone =>
        /\ TallySum <= results.totalChecks
        /\ TallySum = results.totalChecks - CountStatus(results.checks, "error")
        /\ (TallySum < results.totalChecks
              => \E k \in 1..Len(results.checks) : results.checks[k].status = "error")

C4_Witness ==
    /\ RunAllDone
    /\ ~SomeThrown
    /\ TallySum < results.totalChecks
    /\ CountStatus(results.checks, "info") > 0

\* C5: the returned Result Set has as many entries in checks as totalChecks
\* says, which is the size of the probe registry, whichever probes threw.
C5_Lengths ==
    RunAllDone =>
        /\ Len(results.checks) = results.totalChecks
        /\ results.totalChecks = Cardinality(CheckIds)

C5_Witness ==
    /\ RunAllDone
    /\ SomeThrown
    /\ SomeReturned
    /\ Len(results.checks) = 9

\* C6: every report of a Result Set carries the registry key of its probe
\* as id, set by the aggregator; the ids are pairwise distinct and follow
\* the registry's iteration order, whichever probes threw.
C6_Ids ==
    /\ \A k \in 1..Len(results.checks) :
        /\ "id" \in DOMAIN results.checks[k]
        /\ results.checks[k].id = checks[k]
        /\ results.checks[k].id \in CheckIds
    /\ \A j, k \in 1..Len(results.checks) :
        j # k => results.checks[j].id # results.checks[k].id

C6_Witness ==
    /\ RunAllDone
    /\ observed[3].kind = "thrown"
    /\ observed[4].kind = "returned"
    /\ results.checks[4].id = "ssh"
    /\ results.checks[3].id = "firewall"

\* C7 as stated: every fix descriptor with autoFix = true in a report names
\* a fix of the dispatcher's registry.
C7_AutoFixRegistered ==
    \A k \in 1..Len(results.checks) :
        "fixes" \in DOMAIN results.checks[k] =>
            \A n \in 1..Len(results.checks[k].fixes) :
                results.checks[k].fixes[n].autoFix
                    => results.checks[k].fixes[n].id \in FixIds

IsFixRequest == request.route = "POST /api/fixes/:fixId"
IsCheckRequest == request.route = "GET /api/checks/:checkId"

\* C8 as stated: a fix request whose id is not a registered fix id fails
\* with the unknown-fix error, runs no command and leaves the host as it was.
C8_UnknownFix ==
    IsFixRequest /\ request.id \notin FixIds =>
        /\ response.code = 500
        /\ response.body = [error |-> "Unknown fix: " \o request.id]
        /\ executed = << >>

ProbeFailed(outcome) ==
    outcome.kind = "thrown" \/ outcome.value.status = "error"

\* C10 as stated: a check request with an unregistered id gets a non-2xx
\* response and invokes no probe, while a failure inside a registered probe
\* gets a 200 response whose report has status error.
C10_UnknownCheck ==
    IsCheckRequest =>
        /\ (request.id \notin CheckIds => response.code # 200 /\ observed = << >>)
        /\ (request.id \in CheckIds /\ ProbeFailed(observed[1])
              => response.code = 200 /\ response.body.status = "error")

\* the fields of the Report Model
ReportFields ==
    {"name", "description", "category", "status", "message", "details",
     "recommendations", "fixes"}

\* C11 as stated: every entry of the checks list of a Result Set, the
\* synthetic report of a throwing probe included, has every field of the
\* Report Model, so recommendations and fixes can be read on each entry.
C11_ReportModel ==
    \A k \in 1..Len(results.checks) :
        ReportFields \subseteq DOMAIN results.checks[k]

\* the command lines the fixes of the registry run
FixCommandLines ==
    UNION { { fixCommands(f, p)[n] : n \in 1..Len(fixCommands(f, p)) } :
            f \in FixIds, p \in ParamValues }

\* C12 as stated: probes leave the host as it is; every state-changing
\* command that took effect on the host was run by a fix of the dispatcher.
C12_ProbesReadOnly ==
    \A k \in 1..Len(hostLog) : hostLog[k].cmd \in FixCommandLines

\* a single-probe request for the probe id has been served on the host of input
ServedProbe(id) == IsCheckRequest /\ input.id = id /\ request.id = id

\* no firewall manager reports active, the packet filter has no rule, and no
\* native profile is enabled
NoFirewallMechanism(obs) ==
    /\ obs.ufw # "active"
    /\ obs.iptables = 0
    /\ \A n \in 1..Len(obs.windows.profiles) : ~obs.windows.profiles[n]

\* C13 as stated: on a host with no firewall mechanism at all the firewall
\* report is critical and offers a fix with autoFix = true that the fix
\* registry holds.
C13_NoFirewall ==
    ServedProbe("firewall") /\ NoFirewallMechanism(input.obs) =>
        /\ response.body.status = "critical"
        /\ \E n \in 1..Len(response.body.fixes) :
              response.body.fixes[n].autoFix /\ response.body.fixes[n].id \in FixIds

\* the value sshd_config sets for a directive: that of its first line
RECURSIVE FirstValue(_, _, _)
FirstValue(config, key, n) ==
    IF n > Len(config) THEN "unset"
    ELSE IF config[n].key = key THEN config[n].value
    ELSE FirstValue(config, key, n + 1)

\* the directives of the five that the file sets to a value that is not secure
Deviating(config) ==
    { key \in {"PermitRootLogin", "PasswordAuthentication", "PubkeyAuthentication",
               "X11Forwarding", "MaxAuthTries"} :
        LET v == FirstValue(config, key, 1)
        IN  /\ v # "unset"
            /\ CASE key = "PermitRootLogin" -> v \notin {"no", "prohibit-password"}
                 [] key = "PasswordAuthentication" -> v \notin {"no", "No"}
                 [] key = "PubkeyAuthentication" -> v \notin {"yes", "Yes"}
                 [] key = "X11Forwarding" -> v \notin {"no", "No"}
                 [] key = "MaxAuthTries" -> v \notin {"1", "2", "3"} }

\* C14: with sshd running and its config readable, the SSH report is
\* critical when two or more of the five directives deviate, warning when
\* exactly one does and pass when none does, and it carries one
\* recommendation per deviating directive; PermitRootLogin yes with
\* PasswordAuthentication yes gives critical with the two matching messages.
C14_SSHIssues ==
    ServedProbe("ssh") /\ input.obs.sshRunning /\ input.obs.configReadable =>
        LET dev == Deviating(input.obs.config)
            n == Cardinality(dev)
            recs == response.body.recommendations
        IN  /\ response.body.status =
                  (IF n >= 2 THEN "critical" ELSE IF n = 1 THEN "warning" ELSE "pass")
            /\ Len(recs) = n
            /\ (dev = {"PermitRootLogin", "PasswordAuthentication"} =>
                  recs = <<Rec("medium", "Root login should be disabled"),
                           Rec("medium",
                               "Password authentication should be disabled (use keys)")>>)
            /\ (dev = {"X11Forwarding"} => response.body.status = "warning")

C14_Witness ==
    /\ ServedProbe("ssh")
    /\ input.obs.config = <<Line("PermitRootLogin", "yes"),
                            Line("PasswordAuthentication", "Yes")>>
    /\ response.body.status = "critical"
    /\ Len(response.body.recommendations) = 2

\* only the CPU temperature of the host can raise a finding
CpuOnly(obs) ==
    /\ obs.siFails = "none"
    /\ ~obs.inWSL2
    /\ ~obs.siFanStopped
    /\ obs.load <= 90 /\ obs.memPct <= 90 /\ obs.diskPct <= 90

\* only the GPU temperature of the host can raise a finding
GpuOnly(obs) ==
    /\ obs.siFails = "none"
    /\ obs.inWSL2 /\ obs.gpu.present /\ obs.gpu.fanSpeed > 0
    /\ cpuTemperature(obs) = 0
    /\ ~ohmFanAlert(obs) /\ ~obs.lhmFanStopped /\ ~obs.siFanStopped
    /\ obs.load <= 90 /\ obs.memPct <= 90 /\ obs.diskPct <= 90

\* the status the threshold table {warning, critical} gives a temperature
TableStatus(t, warning, critical) ==
    IF t >= critical THEN "critical" ELSE IF t >= warning THEN "warning" ELSE "pass"

\* C15 as stated: a CPU temperature alone gives critical from 90 and warning
\* from 75 up to 90, a GPU temperature alone critical from 95 and warning
\* from 80 up to 95.
C15_Thresholds ==
    ServedProbe("hardware") =>
        /\ (CpuOnly(input.obs) =>
              response.body.status = TableStatus(input.obs.siTemp, 75, 90))
        /\ (GpuOnly(input.obs) =>
              response.body.status = TableStatus(input.obs.gpu.temperature, 80, 95))

\* a source reports a fan at 0 RPM, and the temperature sensor associated
\* with it, where the source has one, reads 70
WindowsFanStoppedHot(obs) ==
    /\ obs.inWSL2
    /\ \/ obs.ohmFan.present /\ obs.ohmFan.rpm = 0 /\ obs.ohmFan.relatedTemp = 70
       \/ obs.gpu.present /\ obs.gpu.fanSpeed = 0 /\ obs.gpu.temperature = 70
       \/ obs.lhmFanStopped

StoppedFanHot(obs) == WindowsFanStoppedHot(obs) \/ obs.siFanStopped

\* the probe got as far as examining that fan reading: the Windows-side
\* sources are examined after si.cpuTemperature(), si.fans() after all other
\* systeminformation calls
FansRead(obs) ==
    \/ WindowsFanStoppedHot(obs) /\ obs.siFails # "cpuTemperature"
    \/ obs.siFanStopped /\ obs.siFails = "none"

Isolated(obs) == obs.inWSL2 /\ obs.wslMode = "nat"

\* C17 as stated: with wildcard-bound sockets found, the open-ports probe
\* and the network-exposure probe report info on an isolated NAT-style
\* network and warning elsewhere.
C17_NatDowngrade ==
    /\ (ServedProbe("network") /\ input.obs.exposed > 0 /\ ~input.obs.portForwarding =>
          response.body.status = (IF Isolated(input.obs) THEN "info" ELSE "warning"))
    /\ (ServedProbe("openPorts") /\ ~input.obs.ssFails
          /\ Some(input.obs.sockets, socketExposed) =>
          response.body.status = (IF Isolated(input.obs) THEN "info" ELSE "warning"))

\* C18 as stated: when sshd runs and its config cannot be read, or stat on a
\* sensitive path fails with an error other than not-found, the report of
\* that probe has status error.
C18_UnexpectedFailure ==
    /\ (ServedProbe("ssh") /\ input.obs.sshRunning /\ ~input.obs.configReadable =>
          response.body.status = "error")
    /\ (ServedProbe("permissions")
          /\ (\E n \in PathIdx : input.obs.stat[n].kind = "error") =>
          response.body.status = "error")

\* no source has a temperature for the probe
NoSensorSource(obs) ==
    /\ obs.siFails = "none"
    /\ obs.siTemp = 0 /\ obs.winTemp = 0 /\ obs.lhmCpu = 0
    /\ ~obs.gpu.present /\ ~obs.ohmFan.present

\* C19 as stated: with no temperature source available the hardware probe
\* returns, without throwing, a report with status error.
C19_SensorUnavailable ==
    ServedProbe("hardware") /\ NoSensorSource(input.obs) =>
        /\ response.code = 200
        /\ response.body.status = "error"

\* C20 as stated: the probes of one run are called without waiting for one
\* another, so once a probe has settled every probe has been called, and the
\* Result Set is returned after all have settled.
C20_Concurrent ==
    /\ (pc = "running" /\ Len(observed) > 0 => LoopDone(idx))
    /\ (RunAllDone => inFlight = {} /\ Len(observed) = Len(checks))

\* C20 amended: the probes of one run are called one at a time in registry
\* order, each call awaited before the next probe is called, and the Result
\* Set is returned only after the last call has settled.
C20_Sequential ==
    /\ Cardinality(inFlight) <= 1
    /\ (pc = "running" =>
          /\ inFlight \subseteq {idx - 1}
          /\ Len(observed) = idx - 1 - Cardinality(inFlight))
    /\ (RunAllDone => inFlight = {} /\ Len(observed) = Len(checks))

C20_Witness ==
    /\ pc = "running"
    /\ inFlight = {5}
    /\ Len(observed) = 4
    /\ idx = 6

OwnTallies(res) ==
    /\ res.passed = CountStatus(res.checks, "pass")
    /\ res.info = CountStatus(res.checks, "info")
    /\ res.warnings = CountStatus(res.checks, "warning")
    /\ res.critical = CountStatus(res.checks, "critical")

\* C21: every call of runAllChecks starts from zeroed tallies and an empty
\* checks list, and however two overlapping calls interleave at their awaits,
\* the Result Set of each holds one report per probe that call has awaited,
\* in registry order, and its tallies count exactly the statuses of those
\* reports: nothing of an earlier or overlapping call is carried over.
C21_OwnResults ==
    \A r \in Invocations :
        LET res == runs[r].results
        IN  /\ OwnTallies(res)
            /\ (runs[r].pc # "idle" =>
                  /\ Len(res.checks) = runs[r].idx - 1
                  /\ \A k \in 1..Len(res.checks) : res.checks[k].id = checks[k])
            /\ (runs[r].pc = "running" /\ runs[r].idx = 1 => res = NewResults)
            /\ (runs[r].pc = "done" =>
                  Len(res.checks) = Len(checks) /\ res.overallScore = Score(res))

C21_Witness ==
    /\ runs[1].pc = "running" /\ runs[1].idx = 6
    /\ runs[2].pc = "running" /\ runs[2].idx = 3
    /\ runs[1].results.warnings = 1
    /\ runs[2].results.passed = 2 /\ runs[2].results.warnings = 0

\* the fetch of the hardware probe waits on a bridge that never responds
SilentPending == lhm.phase = "pending" /\ lhm.server = "silent"

\* the hardware probe has returned its report to runAllChecks
HardwareReported ==
    /\ lhm.phase = "done"
    /\ Len(observed) >= HardwareIdx
    /\ observed[HardwareIdx].kind = "returned"
    /\ observed[HardwareIdx].value.status \in {"pass", "info", "warning", "critical", "error"}
    /\ observed[HardwareIdx].value.message # Undefined

MultiStepFixes == {"enable_ufw", "harden_ssh", "stop_telnet", "stop_ftp"}

\* C23 as stated: when command k of a multi-step fix fails, k is the last
\* command the fix executes, the commands before k stay in effect on the
\* host, and the response is the single outcome {success: false, message}
\* with the error text of command k.
C23_PartialFix ==
    IsFixRequest /\ request.id \in MultiStepFixes =>
        \A k \in 1..Len(executed) :
            executed[k].exit # 0 =>
                /\ Len(executed) = k
                /\ \A j \in 1..(k - 1) :
                      \E n \in 1..Len(hostLog) : hostLog[n].cmd = executed[j].cmd
                /\ response.code = 200
                /\ response.body = [success |-> FALSE, message |-> executed[k].error]

\* some firewall mechanism is really active on the host
SomeFirewallMechanism(obs) ==
    \/ obs.ufw = "active"
    \/ obs.iptables >= 1
    \/ \E n \in 1..Len(obs.windows.profiles) : obs.windows.profiles[n]

\* C24 as stated: the firewall probe reports the firewall as active exactly
\* when the firewall manager reports active, the packet filter has a rule or
\* a native profile is enabled, and reports critical otherwise; with the
\* manager installed and inactive, no rule and no profile enabled the status
\* is critical.
C24_ActiveIff ==
    ServedProbe("firewall") =>
        /\ (response.body.message = "Firewall is active"
              <=> SomeFirewallMechanism(input.obs))
        /\ (response.body.status = "critical" <=> ~SomeFirewallMechanism(input.obs))
        /\ (input.obs.ufw = "inactive" /\ ~SomeFirewallMechanism(input.obs)
              => response.body.status = "critical")

\* bit b (0..8) of a 9-bit mode is set
HasBit(mode, b) == (mode \div (2 ^ b)) % 2 = 1

\* the mode grants a permission bit that the maximum does not grant
Looser(mode, maxMode) == \E b \in 0..8 : HasBit(mode, b) /\ ~HasBit(maxMode, b)

\* the report records path number k as an issue
RecordedIssue(report, k) ==
    \E n \in 1..Len(report.recommendations) :
        report.recommendations[n].message
            = "permissions should be stricter: " \o criticalPaths[k].path

\* C25 as stated: an existing path of the fixed list is recorded as an issue
\* exactly when its mode grants at least one permission bit that the
\* maximum-permitted bitmask of the path does not grant.
C25_LooserBits ==
    ServedProbe("permissions") =>
        \A k \in PathIdx :
            input.obs.stat[k].kind = "mode" =>
                (RecordedIssue(response.body, k)
                    <=> Looser(input.obs.stat[k].mode, criticalPaths[k].maxMode))

\* the paths the report records as issues
RecordedIssues(report) == { k \in PathIdx : RecordedIssue(report, k) }

\* C26 as stated: with at least one issue the permissions report is critical
\* exactly when some issue is on a system path under /etc, and warning when
\* every issue is on a user-owned path (the SSH directory and keys, the GPG
\* directory, the application's config directory).
C26_SystemEscalates ==
    ServedProbe("permissions") /\ RecordedIssues(response.body) # {} =>
        LET onSystemPath == \E k \in RecordedIssues(response.body) :
                                criticalPaths[k].underEtc
        IN  response.body.status = (IF onSystemPath THEN "critical" ELSE "warning")

IssueIds(issues) == { issues[k].id : k \in 1..Len(issues) }

\* checkClawdbot has returned its report for the audit runs of input
AuditCalled == input.id = "clawdbot" /\ observed # << >>

\* C27 as stated: when the application audit merges the results of its two
\* contexts, the merged issue list holds each issue of either context once,
\* each merged count (critical, warn, info) is the larger of the two
\* contexts' counts, and the status follows the merged counts.
C27_MergeUnionMax ==
    AuditCalled /\ observed[1].value.details.merged =>
        LET report == observed[1].value
            merged == report.details
            wsl == input.obs.wsl.parsed
            win == input.obs.win.parsed
            union == IssueIds(wsl.issues) \cup IssueIds(win.issues)
        IN  /\ IssueIds(merged.issues) = union
            /\ Len(merged.issues) = Cardinality(union)
            /\ merged.summary.critical = MathMax(wsl.summary.critical, win.summary.critical)
            /\ merged.summary.warn = MathMax(wsl.summary.warn, win.summary.warn)
            /\ merged.summary.info = MathMax(wsl.summary.info, win.summary.info)
            /\ report.status = (IF merged.summary.critical > 0 THEN "critical"
                                 ELSE IF merged.summary.warn > 0 THEN "warning"
                                 ELSE "pass")

\* the values the status of the probe takes in one run; the probes not
\* listed assign it once, at the end
StatusTrace(id, obs) ==
    CASE id = "gateway" -> gatewayTrace(obs)
      [] id = "hardware" -> hardwareTrace(obs)
      [] id = "network" -> networkTrace(obs)
      [] OTHER -> <<"pass", Probe(id, obs).status>>

\* the precedence critical > warning > info > pass; error stands apart
Rank(status) ==
    CASE status = "critical" -> 3 [] status = "warning" -> 2
      [] status = "info" -> 1 [] OTHER -> 0

\* C28 as stated: within one run of a registered probe the status only
\* moves up the precedence critical > warning > info > pass, so the status
\* of the report is the most severe status any finding of the run has set;
\* a warning set by a gateway config finding is still there when the
\* gateway process is found not running.
C28_StatusMonotone ==
    request.route = "GET /api/checks/:checkId" /\ input # NoInput =>
        LET trace == StatusTrace(input.id, input.obs)
        IN  /\ \A k \in 1..(Len(trace) - 1) : Rank(trace[k + 1]) >= Rank(trace[k])
            /\ (response.body.status # "error" =>
                  /\ response.body.status = trace[Len(trace)]
                  /\ \A k \in 1..Len(trace) :
                        Rank(response.body.status) >= Rank(trace[k]))

\* C29 as stated: the report of every registered probe has its message set
\* on every path through the probe, also when a port-forwarding rule is the
\* only finding of the network-exposure probe, and the message is computed
\* after the status has its final value, so a message written for status
\* info is not found under another status.
C29_MessageSet ==
    request.route = "GET /api/checks/:checkId" /\ input # NoInput =>
        /\ response.body.message # Undefined
        /\ (response.body.message = "service(s) on all interfaces (isolated by WSL2 NAT)"
              => response.body.status = "info")

HasIssues(outcome) == IsReport(outcome) /\ outcome.value.status \in {"warning", "critical"}

NoIssues(outcome) ==
    /\ IsReport(outcome)
    /\ outcome.value.status = "pass"
    /\ outcome.value.recommendations = << >>

\* C30 as stated: when the SSH probe has reported issues and harden_ssh is
\* then applied, once or several times, and returns success, the next run
\* of the SSH probe reports no issue, whatever the config was at the start.
C30_HardenEffective ==
    \A i, m \in 1..Len(observed) :
        /\ i < m
        /\ HasIssues(observed[i])
        /\ IsReport(observed[m])
        /\ \A j \in (i + 1)..(m - 1) : IsFixOutcome(observed[j])
        /\ \E j \in (i + 1)..(m - 1) : observed[j].value.success
        => NoIssues(observed[m])

====
